---------------------------- MODULE Spec2Model ----------------------------
(***************************************************************************)
(* Offer Index subsystem of offers-resolver: the index tables, the         *)
(* recompute engine (recompute.ts), the job queue and its worker           *)
(* (queue.ts, concatenated in cron.ts), the backstop timer and the offers  *)
(* resolver with its keyset pagination and first-page cache (offers.ts,    *)
(* concatenated in filters.ts).                                            *)
(*                                                                         *)
(* Conventions.  A nullable column or value is a sequence of length 0      *)
(* (NULL) or 1 (the value).  Strings that the code takes apart, orders or  *)
(* hashes (outlet ids, job targets, cursors, job ids) are sequences of     *)
(* one-character strings; strings that are only compared for equality     *)
(* (customer types, review statuses, kinds) are TLA+ strings.              *)
(***************************************************************************)
EXTENDS Integers, Sequences, FiniteSets, TLC

\* ------------------------------------------------------------------ values

Null == <<>>
Some(v) == <<v>>
IsNull(x) == x = <<>>
Val(x) == x[1]
\* SQL COALESCE(x, d)
Coalesce(x, d) == IF IsNull(x) THEN d ELSE Val(x)

RECURSIVE SetToSeq(_)
SetToSeq(S) ==
  IF S = {} THEN <<>>
  ELSE LET x == CHOOSE y \in S : TRUE IN <<x>> \o SetToSeq(S \ {x})

Range(s) == {s[i] : i \in 1..Len(s)}

MaxOf(S, d) == IF S = {} THEN d ELSE CHOOSE x \in S : \A y \in S : y <= x

\* ------------------------------------------------------------- characters

Digits == <<"0", "1", "2", "3", "4", "5", "6", "7", "8", "9">>

\* charCodeAt for the characters the model's strings are made of.
CharCode(c) ==
  CASE c = "-" -> 45
    [] c = "0" -> 48 [] c = "1" -> 49 [] c = "2" -> 50 [] c = "3" -> 51
    [] c = "4" -> 52 [] c = "5" -> 53 [] c = "6" -> 54 [] c = "7" -> 55
    [] c = "8" -> 56 [] c = "9" -> 57
    [] c = ":" -> 58
    [] c = "a" -> 97  [] c = "b" -> 98  [] c = "c" -> 99  [] c = "d" -> 100
    [] c = "e" -> 101 [] c = "f" -> 102 [] c = "g" -> 103 [] c = "h" -> 104
    [] c = "i" -> 105 [] c = "k" -> 107 [] c = "l" -> 108 [] c = "m" -> 109
    [] c = "n" -> 110 [] c = "o" -> 111 [] c = "p" -> 112 [] c = "r" -> 114
    [] c = "s" -> 115 [] c = "t" -> 116 [] c = "u" -> 117 [] c = "v" -> 118
    [] c = "x" -> 120 [] c = "y" -> 121 [] c = "z" -> 122

\* Text comparison a < b: by code unit, a proper prefix first.
RECURSIVE StrLess(_, _)
StrLess(a, b) ==
  IF b = <<>> THEN FALSE
  ELSE IF a = <<>> THEN TRUE
  ELSE IF CharCode(Head(a)) < CharCode(Head(b)) THEN TRUE
  ELSE IF CharCode(Head(a)) > CharCode(Head(b)) THEN FALSE
  ELSE StrLess(Tail(a), Tail(b))

\* Template literal `${n}` of a non-negative integer.
RECURSIVE NumberToString(_)
NumberToString(n) ==
  IF n < 10 THEN <<Digits[n + 1]>>
  ELSE NumberToString(n \div 10) \o <<Digits[(n % 10) + 1]>>

IsDigit(c) == \E i \in 1..10 : Digits[i] = c
DigitValue(c) == (CHOOSE i \in 1..10 : Digits[i] = c) - 1

RECURSIVE DigitsValue(_, _)
DigitsValue(s, acc) ==
  IF s = <<>> THEN acc ELSE DigitsValue(Tail(s), acc * 10 + DigitValue(Head(s)))

\* Number(str) of a string: Null stands for NaN.  The empty string is 0 and a
\* run of decimal digits is its value; any other string of the model is NaN.
StringToNumber(s) ==
  IF \A i \in 1..Len(s) : IsDigit(s[i]) THEN Some(DigitsValue(s, 0)) ELSE Null

\* raw.split(":")
RECURSIVE SplitColon(_, _)
SplitColon(s, cur) ==
  IF s = <<>> THEN <<cur>>
  ELSE IF Head(s) = ":" THEN <<cur>> \o SplitColon(Tail(s), <<>>)
  ELSE SplitColon(Tail(s), Append(cur, Head(s)))

\* Buffer.from(s, "utf8").toString("base64") and back: base64 is a bijection
\* between strings and their encodings; a string that is no encoding of the
\* model decodes to itself (Buffer skips what it cannot decode).
Base64Encode(s) == <<"base64", s>>
Base64Decode(c) == IF Len(c) = 2 /\ c[1] = "base64" THEN c[2] ELSE c


\* ------------------------------------------------------------------ state

VARIABLES
  \* source tables, owned by the collaborators
  cashbackConfiguration,   \* id -> Null or Some(row)
  exclusiveOffer,          \* id -> Null or Some(row)
  loyaltyProgram,          \* merchant id -> Null or Some(row): merchant.LoyaltyProgram
  customerType,            \* set of [userId, merchantId, type]
  outlet,                  \* set of [id, merchantId, isActive, reviewStatus, name, description]
  merchant,                \* set of [id, status, category, businessName]
  paybillOrTill,           \* set of [outletId, isActive, deletedAt, reviewStatus]
  proc,                    \* the API process: [REDIS_URL, worker, timers]
  \* index tables
  offerIndex,              \* set of OfferIndex rows
  offerIndexCustomerType,  \* set of [offerIndexId, customerType]
  offerIndexOutlet,        \* set of [offerIndexId, outletId]
  loyaltyTierIndex,        \* set of [offerIndexId, tierRank, ..., n]
  userMerchantProfile,     \* set of [userId, merchantId, customerType, rank]
  offerIndexRebuildLog,    \* sequence of log rows
  nextId,                  \* generator of OfferIndex ids
  \* the queue backend and the worker
  jobs,                    \* sequence of the jobs the queue holds
  nextJobId,               \* generator of job ids for jobs added without one
  enqueued,                \* the last call of enqueueOfferIndexJob: Null or Some([job, jobId, added])
  runs,                    \* worker slot -> the recompute call it is in
  \* the serving path
  now,                     \* the clock
  redis,                   \* the result cache: set of [key, value, expiresAt]
  session,                 \* a client paging through offers
  lastOp                   \* the operation that produced this state

srcVars == <<cashbackConfiguration, exclusiveOffer, loyaltyProgram, customerType>>
staticVars == <<outlet, merchant, paybillOrTill, proc>>
idxVars == <<offerIndex, offerIndexCustomerType, offerIndexOutlet, loyaltyTierIndex, nextId>>
queueVars == <<jobs, nextJobId, enqueued, runs, offerIndexRebuildLog>>
serveVars == <<redis, session>>
vars == <<srcVars, staticVars, idxVars, userMerchantProfile, queueVars, now, serveVars, lastOp>>

\* ------------------------------------------------------- customerTypes.ts

ORDERED_CUSTOMER_TYPES == <<"NonCustomer", "New", "Infrequent", "Occasional", "Regular", "Vip">>

\* The values a property lookup on the object literal yields: a number, or a
\* member it inherits from Object.prototype.
JsNumber(n) == <<"number", n>>
JsInherited(key) == <<"inherited", key>>
IsJsNumber(v) == v[1] = "number"
NumberValue(v) == v[2]

\* The properties every object literal inherits from Object.prototype.
OBJECT_PROTOTYPE_KEYS ==
  {"constructor", "hasOwnProperty", "isPrototypeOf", "propertyIsEnumerable",
   "toLocaleString", "toString", "valueOf", "__proto__",
   "__defineGetter__", "__defineSetter__", "__lookupGetter__", "__lookupSetter__"}

\* customerTypeRank(type): type is Null for null or undefined.  The lookup
\* ORDERED_CUSTOMER_TYPES[type] goes through the prototype chain, and ?? only
\* replaces null and undefined.
customerTypeRank(type) ==
  IF IsNull(type) \/ Val(type) = "" THEN JsNumber(0)
  ELSE IF \E i \in 1..Len(ORDERED_CUSTOMER_TYPES) : ORDERED_CUSTOMER_TYPES[i] = Val(type)
       THEN JsNumber((CHOOSE i \in 1..Len(ORDERED_CUSTOMER_TYPES) :
                        ORDERED_CUSTOMER_TYPES[i] = Val(type)) - 1)
       ELSE IF Val(type) \in OBJECT_PROTOTYPE_KEYS THEN JsInherited(Val(type))
       ELSE JsNumber(0)

isTierEligible(userRank, tierMinRank) == userRank >= tierMinRank

\* ------------------------------------------------- filters.ts: the helpers

DEFAULT_TAKE == 20
MAX_TAKE == 50

normalizeTakeNoFloor(take) ==
  LET n == IF IsNull(take) THEN DEFAULT_TAKE ELSE Val(take)
  IN IF n < MAX_TAKE THEN n ELSE MAX_TAKE

\* normalizeTake(take): take is Null for null or undefined.
normalizeTake(take) ==
  LET n == IF IsNull(take) THEN DEFAULT_TAKE ELSE Val(take)
      lo == IF n < MAX_TAKE THEN n ELSE MAX_TAKE
  IN IF 1 > lo THEN 1 ELSE lo

encodeCursor(sortKey, outletId) ==
  Base64Encode(NumberToString(sortKey) \o <<":">> \o outletId)

\* decodeCursor(cursor): Null, or Some([sortKey, outletId]).  The destructuring
\* const [sortKeyStr, outletId] = raw.split(":") keeps the first two parts.
decodeCursor(cursor) ==
  IF IsNull(cursor) \/ Val(cursor) = <<>> THEN Null
  ELSE LET raw == Base64Decode(Val(cursor))
           parts == SplitColon(raw, <<>>)
           sortKey == StringToNumber(parts[1])
           outletId == IF Len(parts) >= 2 THEN parts[2] ELSE <<>>
       IN IF IsNull(sortKey) \/ outletId = <<>> THEN Null
          ELSE Some([sortKey |-> Val(sortKey), outletId |-> outletId])

ToLower(c) == CASE c = "C" -> "c" [] c = "O" -> "o" [] OTHER -> c

\* text ILIKE '%' || escapeLike(search) || '%' ESCAPE '\': escapeLike makes
\* every character of search literal, so the pattern matches the texts that
\* contain search, letter case ignored.
ILikeContains(text, search) ==
  \E i \in 0..(Len(text) - Len(search)) :
    \A j \in 1..Len(search) : ToLower(text[i + j]) = ToLower(search[j])

\* input.search?.trim(): the model's strings carry no surrounding blanks.
Trim(s) == s

\* ---------------------------------------- offers.ts: the resolution query

\* WITH profile AS (SELECT ... FROM "UserMerchantProfile" WHERE "userId" = $userId)
profile(userId) == {p \in userMerchantProfile : p.userId = userId}

\* oi LEFT JOIN profile p ON p."merchantId" = oi."merchantId": the p side of
\* the joined rows of oi, all columns NULL when no profile row matches.
LeftJoinProfile(oi, userId) ==
  LET ms == {p \in profile(userId) : p.merchantId = oi.merchantId}
  IN IF ms = {} THEN {[customerType |-> Null, rank |-> Null]}
     ELSE {[customerType |-> Some(p.customerType), rank |-> Some(p.rank)] : p \in ms}

\* EXISTS (SELECT 1 FROM "OfferIndexCustomerType" ect WHERE ect."offerIndexId" = oi."id"
\*         AND ect."customerType" = ct)
ExistsCustomerType(oi, ct) ==
  \E ect \in offerIndexCustomerType : ect.offerIndexId = oi.id /\ ect.customerType = ct

SnapshotLiveButBudget(oi) ==
  /\ oi.isActiveSnapshot = TRUE
  /\ oi.isApprovedSnapshot = TRUE
  /\ IsNull(oi.deletedAtSnapshot)

\* The four snapshot predicates both branches and the loader share.
SnapshotLive(oi) ==
  /\ oi.isActiveSnapshot = TRUE
  /\ oi.isApprovedSnapshot = TRUE
  /\ IsNull(oi.deletedAtSnapshot)
  /\ oi.budgetExhausted = FALSE

DateWindowOpenEnded(oi, t) ==
  /\ IsNull(oi.startDate) \/ Val(oi.startDate) <= t
  /\ IsNull(oi.endDate) \/ Val(oi.endDate) >= t

\* (start IS NULL AND end IS NULL) OR (start <= now AND end >= now); a comparison
\* with NULL is not true.
DateWindowOpen(oi, t) ==
  \/ IsNull(oi.startDate) /\ IsNull(oi.endDate)
  \/ /\ ~IsNull(oi.startDate) /\ ~IsNull(oi.endDate)
     /\ Val(oi.startDate) <= t /\ Val(oi.endDate) >= t

PercentageFilter(oi, minBps, maxBps) ==
  /\ IsNull(minBps) \/ Coalesce(oi.maxCashbackPercentBps, 0) >= Val(minBps)
  /\ IsNull(maxBps) \/ Coalesce(oi.maxCashbackPercentBps, 0) <= Val(maxBps)

ResolverCustomerTypeRuleNoProfileCheck(oi, p) ==
  \/ ExistsCustomerType(oi, "All")
  \/ ~IsNull(p.customerType) /\ ExistsCustomerType(oi, Val(p.customerType))
  \/ ExistsCustomerType(oi, "NonCustomer")

\* The customer-type rule of eligible_cashback_or_exclusive, on a joined row.
ResolverCustomerTypeRule(oi, p) ==
  \/ ExistsCustomerType(oi, "All")
  \/ ~IsNull(p.customerType) /\ ExistsCustomerType(oi, Val(p.customerType))
  \/ IsNull(p.customerType) /\ ExistsCustomerType(oi, "NonCustomer")

\* The rows of eligible_cashback_or_exclusive with the offer each comes from
\* (the CTE itself selects DISTINCT outletId, sortKey).
CashbackOrExclusiveMatches(userId, minBps, maxBps, t) ==
  {[offerIndexId |-> oi.id, outletId |-> oio.outletId,
    sortKey |-> Coalesce(oi.maxCashbackPercentBps, 0)] :
     <<oi, oio>> \in
       {x \in offerIndex \X offerIndexOutlet :
          /\ x[2].offerIndexId = x[1].id
          /\ x[1].kind \in {"CASHBACK", "EXCLUSIVE"}
          /\ SnapshotLive(x[1])
          /\ DateWindowOpen(x[1], t)
          /\ PercentageFilter(x[1], minBps, maxBps)
          /\ \E p \in LeftJoinProfile(x[1], userId) : ResolverCustomerTypeRule(x[1], p)}}

eligible_cashback_or_exclusive(userId, minBps, maxBps, t) ==
  {[outletId |-> r.outletId, sortKey |-> r.sortKey] :
     r \in CashbackOrExclusiveMatches(userId, minBps, maxBps, t)}

ExistsTierAnyRank(oi, p) ==
  \E lti \in loyaltyTierIndex :
    /\ lti.offerIndexId = oi.id
    /\ lti.isActiveSnapshot = TRUE
    /\ lti.isApprovedSnapshot = TRUE
    /\ IsNull(lti.deletedAtSnapshot)

\* EXISTS (SELECT 1 FROM "LoyaltyTierIndex" lti WHERE ... AND
\*         lti."tierRank" <= COALESCE(p."rank", 0))
ExistsTier(oi, p) ==
  \E lti \in loyaltyTierIndex :
    /\ lti.offerIndexId = oi.id
    /\ lti.isActiveSnapshot = TRUE
    /\ lti.isApprovedSnapshot = TRUE
    /\ IsNull(lti.deletedAtSnapshot)
    /\ lti.tierRank <= Coalesce(p.rank, 0)

LoyaltyMatches(userId) ==
  {[offerIndexId |-> oi.id, outletId |-> oio.outletId, sortKey |-> 0] :
     <<oi, oio>> \in
       {x \in offerIndex \X offerIndexOutlet :
          /\ x[2].offerIndexId = x[1].id
          /\ x[1].kind = "LOYALTY"
          /\ SnapshotLive(x[1])
          /\ \E p \in LeftJoinProfile(x[1], userId) : ExistsTier(x[1], p)}}

eligible_loyalty(userId) ==
  {[outletId |-> r.outletId, sortKey |-> r.sortKey] : r \in LoyaltyMatches(userId)}

\* SELECT * FROM eligible_cashback_or_exclusive UNION SELECT * FROM eligible_loyalty
eligible_outlets(userId, minBps, maxBps, t) ==
  eligible_cashback_or_exclusive(userId, minBps, maxBps, t) \cup eligible_loyalty(userId)

ExistsPaybillOfAnyState(o) == \E p \in paybillOrTill : p.outletId = o.id

\* EXISTS (SELECT 1 FROM "PaybillOrTill" p LEFT JOIN "Review" pr ... WHERE
\*         p."outletId" = o."id" AND p."isActive" AND p."deletedAt" IS NULL
\*         AND pr."status" = 'Approved')
ExistsPaybill(o) ==
  \E p \in paybillOrTill :
    /\ p.outletId = o.id
    /\ p.isActive = TRUE
    /\ IsNull(p.deletedAt)
    /\ p.reviewStatus = Some("Approved")

\* The outlet and merchant predicates of the outer SELECT, on the join
\* o JOIN m LEFT JOIN r.
StaticFilters(o, m, category, search) ==
  /\ o.isActive = TRUE
  /\ o.reviewStatus = Some("Approved")
  /\ m.status = "Active"
  /\ (~IsNull(category) /\ Val(category) # <<>>) => m.category = Val(category)
  /\ (~IsNull(search) /\ Val(search) # <<>>) =>
       \/ ILikeContains(o.name, Val(search))
       \/ ILikeContains(Coalesce(o.description, <<>>), Val(search))
       \/ ILikeContains(m.businessName, Val(search))
  /\ ExistsPaybill(o)

\* The rows of eligible_outlets that survive the joins and the static filters.
JoinedRows(userId, q, t) ==
  {eo \in eligible_outlets(userId, q.minBps, q.maxBps, t) :
     \E o \in outlet : \E m \in merchant :
       /\ o.id = eo.outletId
       /\ m.id = o.merchantId
       /\ StaticFilters(o, m, q.category, q.search)}

GroupedRowsMin(userId, q, t) ==
  LET J == JoinedRows(userId, q, t)
  IN {[outletId |-> id,
       sortKey |-> CHOOSE k \in {r.sortKey : r \in {x \in J : x.outletId = id}} :
                     \A y \in {r.sortKey : r \in {x \in J : x.outletId = id}} : k <= y] :
        id \in {r.outletId : r \in J}}

\* GROUP BY eo."outletId" with MAX(eo."sortKey").
GroupedRows(userId, q, t) ==
  LET J == JoinedRows(userId, q, t)
  IN {[outletId |-> id, sortKey |-> MaxOf({r.sortKey : r \in {x \in J : x.outletId = id}}, 0)] :
        id \in {r.outletId : r \in J}}

\* The keyset predicate on a group: MAX(sortKey) < c.sortKey OR
\* (MAX(sortKey) = c.sortKey AND outletId > c.outletId).  It is left out when
\* there is no cursor.
CursorPredicate(row, cursor) ==
  \/ IsNull(cursor)
  \/ row.sortKey < Val(cursor).sortKey
  \/ row.sortKey = Val(cursor).sortKey /\ StrLess(Val(cursor).outletId, row.outletId)

\* ORDER BY "sortKey" DESC, eo."outletId" ASC
RowBefore(a, b) ==
  \/ a.sortKey > b.sortKey
  \/ a.sortKey = b.sortKey /\ StrLess(a.outletId, b.outletId)

RECURSIVE OrderRows(_)
OrderRows(S) ==
  IF S = {} THEN <<>>
  ELSE LET first == CHOOSE a \in S : \A b \in S \ {a} : RowBefore(a, b)
       IN <<first>> \o OrderRows(S \ {first})

Limit(rows, n) == SubSeq(rows, 1, IF Len(rows) < n THEN Len(rows) ELSE n)

\* The whole statement: the rows $queryRaw returns.
queryRaw(userId, q, cursor, take, t) ==
  Limit(OrderRows({r \in GroupedRows(userId, q, t) : CursorPredicate(r, cursor)}), take + 1)

\* --------------------------------------------- offers.ts: offersResolver

CACHE_TTL == 20

\* `${n ?? ""}` of a nullable number.
OptNumberToString(n) == IF IsNull(n) THEN <<>> ELSE NumberToString(Val(n))

InputMinBps(input) == IF IsNull(input.percentage) THEN Null ELSE Val(input.percentage).minBps
InputMaxBps(input) == IF IsNull(input.percentage) THEN Null ELSE Val(input.percentage).maxBps

\* The literal parts of the cache key's template.
K1 == <<"o", "f", "f", "e", "r", "s", ":", "v", "3", ":", "u", "s", "e", "r", ":">>
K2 == <<":", "t", "a", "k", "e", ":">>
K3 == <<":", "s", "e", "a", "r", "c", "h", ":">>
K4 == <<":", "c", "a", "t", ":">>
K5 == <<":", "m", "i", "n", ":">>
K6 == <<":", "m", "a", "x", ":">>

\* The template literal of the cache key.
CacheKeyOf(userId, take, input) ==
  K1 \o userId
  \o K2 \o NumberToString(take)
  \o K3 \o Coalesce(input.search, <<>>)
  \o K4 \o Coalesce(input.category, <<>>)
  \o K5 \o OptNumberToString(InputMinBps(input))
  \o K6 \o OptNumberToString(InputMaxBps(input))

\* JSON.stringify and JSON.parse of a response: the text is kept as the value
\* it stands for.
JsonStringify(v) == <<"json", v>>
JsonParse(text) == text[2]

RedisGetExpired(key, t) ==
  LET hit == {e \in Val(redis) : e.key = key}
  IN IF hit = {} THEN Null ELSE Some((CHOOSE e \in hit : TRUE).value)

\* ctx.redis.get(key): the value, Null on a miss or after expiry.
RedisGet(key, t) ==
  LET hit == {e \in Val(redis) : e.key = key /\ t < e.expiresAt}
  IN IF hit = {} THEN Null ELSE Some((CHOOSE e \in hit : TRUE).value)

\* ctx.redis.set(key, value, "EX", 20)
RedisSet(key, value, t) ==
  Some({e \in Val(redis) : e.key # key} \cup
       {[key |-> key, value |-> value, expiresAt |-> t + CACHE_TTL]})

\* The page built from the query's rows: slice, findMany, the order kept,
\* the hints, the next cursor.
PageOf(rows, take) ==
  LET pageRows == Limit(rows, take)
      hasNextPage == Len(rows) > take
      ordered == SelectSeq(pageRows, LAMBDA r : \E o \in outlet : o.id = r.outletId)
      withHints == [i \in 1..Len(ordered) |->
                      [id |-> ordered[i].outletId, sortKey |-> ordered[i].sortKey]]
      nextCursor == IF hasNextPage /\ Len(pageRows) > 0
                    THEN Some(encodeCursor(pageRows[Len(pageRows)].sortKey,
                                           pageRows[Len(pageRows)].outletId))
                    ELSE Null
  IN [nodes |-> withHints, nextCursor |-> nextCursor, hasNextPage |-> hasNextPage]

QueryOf(input) ==
  [search |-> IF IsNull(input.search) THEN Null ELSE Some(Trim(Val(input.search))),
   category |-> IF IsNull(input.category) THEN Null ELSE Some(Trim(Val(input.category))),
   minBps |-> InputMinBps(input),
   maxBps |-> InputMaxBps(input)]

offersResolverCachingEveryPage(userId, input) ==
  LET take == normalizeTake(input.take)
      useCache == ~IsNull(redis)
      cacheKey == CacheKeyOf(userId, take, input)
      cached == IF useCache THEN RedisGet(cacheKey, now) ELSE Null
      cursor == decodeCursor(input.cursor)
      rows == queryRaw(userId, QueryOf(input), cursor, take, now)
      result == PageOf(rows, take)
  IN IF ~IsNull(cached)
     THEN [result |-> JsonParse(Val(cached)), redis |-> redis, cached |-> TRUE]
     ELSE [result |-> result,
           redis |-> IF useCache THEN RedisSet(cacheKey, JsonStringify(result), now) ELSE redis,
           cached |-> FALSE]

\* offersResolver(_parent, {input}, ctx): [result, redis, cached], the response,
\* the cache after the call and whether the response came from the cache.
offersResolver(userId, input) ==
  LET take == normalizeTake(input.take)
      useCache == ~IsNull(redis) /\ (IsNull(input.cursor) \/ Val(input.cursor) = <<>>)
      cacheKey == CacheKeyOf(userId, take, input)
      cached == IF useCache THEN RedisGet(cacheKey, now) ELSE Null
      cursor == decodeCursor(input.cursor)
      rows == queryRaw(userId, QueryOf(input), cursor, take, now)
      result == PageOf(rows, take)
  IN IF ~IsNull(cached)
     THEN [result |-> JsonParse(Val(cached)), redis |-> redis, cached |-> TRUE]
     ELSE [result |-> result,
           redis |-> IF useCache THEN RedisSet(cacheKey, JsonStringify(result), now) ELSE redis,
           cached |-> FALSE]

\* ------------------------------------------------------- offerLoaders.ts

LoaderCustomerTypeRule(oi, kind, p) ==
  /\ kind # "LOYALTY"
  /\ \/ ExistsCustomerType(oi, "All")
     \/ ~IsNull(p.customerType) /\ ExistsCustomerType(oi, Val(p.customerType))
     \/ IsNull(p.customerType) /\ ExistsCustomerType(oi, "NonCustomer")

LoaderLoyaltyRule(oi, kind, p) ==
  /\ kind = "LOYALTY"
  /\ \E lti \in loyaltyTierIndex :
       /\ lti.offerIndexId = oi.id
       /\ lti.isActiveSnapshot = TRUE
       /\ lti.isApprovedSnapshot = TRUE
       /\ IsNull(lti.deletedAtSnapshot)
       /\ lti.tierRank <= Coalesce(p.rank, 0)

\* eligibleOfferIndexRowsForOutlets(prisma, userId, outletIds, kind)
eligibleOfferIndexRowsForOutlets(userId, outletIds, kind, t) ==
  {[outletId |-> oio.outletId, offerIndexId |-> oi.id,
    cashbackConfigurationId |-> oi.cashbackConfigurationId,
    exclusiveOfferId |-> oi.exclusiveOfferId,
    loyaltyProgramId |-> oi.loyaltyProgramId] :
     <<oi, oio>> \in
       {x \in offerIndex \X offerIndexOutlet :
          /\ x[2].offerIndexId = x[1].id
          /\ x[1].kind = kind
          /\ x[2].outletId \in outletIds
          /\ SnapshotLive(x[1])
          /\ DateWindowOpen(x[1], t)
          /\ \E p \in LeftJoinProfile(x[1], userId) :
               LoaderCustomerTypeRule(x[1], kind, p) \/ LoaderLoyaltyRule(x[1], kind, p)}}

\* cashbackByOutlet: per outlet, the ids of the configurations findMany still finds.
cashbackByOutlet(userId, outletIds, t) ==
  LET rows == eligibleOfferIndexRowsForOutlets(userId, outletIds, "CASHBACK", t)
  IN [oid \in outletIds |->
        {Val(r.cashbackConfigurationId) :
           r \in {x \in rows : /\ x.outletId = oid
                               /\ ~IsNull(x.cashbackConfigurationId)
                               /\ Val(x.cashbackConfigurationId) \in DOMAIN cashbackConfiguration
                               /\ ~IsNull(cashbackConfiguration[Val(x.cashbackConfigurationId)])}}]

exclusiveByOutlet(userId, outletIds, t) ==
  LET rows == eligibleOfferIndexRowsForOutlets(userId, outletIds, "EXCLUSIVE", t)
  IN [oid \in outletIds |->
        {Val(r.exclusiveOfferId) :
           r \in {x \in rows : /\ x.outletId = oid
                               /\ ~IsNull(x.exclusiveOfferId)
                               /\ Val(x.exclusiveOfferId) \in DOMAIN exclusiveOffer
                               /\ ~IsNull(exclusiveOffer[Val(x.exclusiveOfferId)])}}]

\* loyaltyByOutlet: per outlet the program of the first row, or Null; which row
\* of several comes first is the database's choice.
loyaltyByOutlet(userId, outletIds, t) ==
  LET rows == eligibleOfferIndexRowsForOutlets(userId, outletIds, "LOYALTY", t)
      Programs == {Val(loyaltyProgram[m]).id : m \in {x \in DOMAIN loyaltyProgram : ~IsNull(loyaltyProgram[x])}}
  IN [oid \in outletIds |->
        LET mine == {x \in rows : x.outletId = oid}
        IN IF mine = {} THEN Null
           ELSE LET first == CHOOSE x \in mine : TRUE
                IN IF IsNull(first.loyaltyProgramId) THEN Null
                   ELSE IF Val(first.loyaltyProgramId) \in Programs THEN first.loyaltyProgramId
                   ELSE Null]

\* -------------------------------------- recompute.ts: the user's profiles

\* prisma.customerType.findMany({where: {userId}})
ReadCustomerTypes(table, userId) == {r \in table : r.userId = userId}

DeleteProfilesOfMerchantsRead(profiles, userId) ==
  {p \in profiles : p.userId # userId \/ p.merchantId \notin {r.merchantId : r \in customerType}}

\* prisma.userMerchantProfile.deleteMany({where: {userId}})
DeleteProfiles(profiles, userId) == {p \in profiles : p.userId # userId}

ProfileRowsOf(userId, rows) ==
  {[userId |-> userId, merchantId |-> r.merchantId, customerType |-> r.type,
    rank |-> NumberValue(customerTypeRank(Some(r.type)))] : r \in rows}

\* createMany throws on the unique index (userId, merchantId) and on a rank
\* that is no number, and then inserts nothing.
CreateProfilesFails(profiles, userId, rows) ==
  \/ \E a, b \in rows : a # b /\ a.merchantId = b.merchantId
  \/ \E r \in rows : ~IsJsNumber(customerTypeRank(Some(r.type)))
  \/ \E p \in profiles : \E r \in rows : p.userId = userId /\ p.merchantId = r.merchantId

CreateProfiles(profiles, userId, rows) ==
  IF CreateProfilesFails(profiles, userId, rows) THEN profiles
  ELSE profiles \cup ProfileRowsOf(userId, rows)

\* rebuildUserMerchantProfilesForUser run alone from start to end.
RebuildProfilesResult(profiles, table, userId) ==
  LET rows == ReadCustomerTypes(table, userId)
      cleared == DeleteProfiles(profiles, userId)
  IN IF rows = {} THEN cleared ELSE CreateProfiles(cleared, userId, rows)

\* ------------------------------------------- recompute.ts: the offer index

\* A budget counter as the code receives it: <<"num", n>>, <<"null">> for
\* null, <<"bad">> for a value that is no number.  Number(x) is Some(n), or
\* Null for NaN; Number(null) is 0.
Num(n) == <<"num", n>>
NullBudget == <<"null">>
BadBudget == <<"bad">>
ToNumber(x) ==
  IF x[1] = "num" THEN Some(x[2]) ELSE IF x[1] = "null" THEN Some(0) ELSE Null

\* a < b on numbers: false as soon as one side is NaN.
NumLess(a, b) == ~IsNull(a) /\ ~IsNull(b) /\ Val(a) < Val(b)
NumGeq(a, b) == ~IsNull(a) /\ ~IsNull(b) /\ Val(a) >= Val(b)

\* isApproved(review): review?.status === "Approved"; review is Null or Some(status).
isApproved(review) == ~IsNull(review) /\ Val(review) = "Approved"

cashbackBudgetExhaustedStrict(net, used) ==
  NumLess(ToNumber(net), ToNumber(used))

\* Number() does not throw, so the catch branch is never taken.
cashbackBudgetExhausted(net, used) ==
  ~NumLess(ToNumber(used), ToNumber(net))

offerBudgetExhausted(net, used) ==
  ~NumLess(ToNumber(used), ToNumber(net))

pointsLimitExhausted(limit, used) ==
  IF limit = NullBudget THEN FALSE
  ELSE NumGeq(ToNumber(used), ToNumber(limit))

\* The tables the recompute functions write, as one value.
IndexTables ==
  [offerIndex |-> offerIndex, offerIndexCustomerType |-> offerIndexCustomerType,
   offerIndexOutlet |-> offerIndexOutlet, loyaltyTierIndex |-> loyaltyTierIndex,
   nextId |-> nextId]

SetIndexTables(t) ==
  /\ offerIndex' = t.offerIndex
  /\ offerIndexCustomerType' = t.offerIndexCustomerType
  /\ offerIndexOutlet' = t.offerIndexOutlet
  /\ loyaltyTierIndex' = t.loyaltyTierIndex
  /\ nextId' = t.nextId

ReadCashbackEveryTier(table, id) ==
  IF IsNull(table[id]) THEN Null
  ELSE LET cc == Val(table[id])
           tiers == cc.CashbackConfigurationTiers
       IN Some([kind |-> "CASHBACK", sourceId |-> id, merchantId |-> cc.merchantId,
                isActiveSnapshot |-> cc.isActive,
                isApprovedSnapshot |-> isApproved(cc.Review),
                deletedAtSnapshot |-> cc.deletedAt,
                budgetExhausted |-> cashbackBudgetExhausted(cc.netCashbackBudget, cc.usedCashbackBudget),
                startDate |-> cc.startDate, endDate |-> cc.endDate,
                maxCashbackPercentBps |-> Some(MaxOf({t.percentage : t \in tiers}, 0)),
                eligibleCustomerTypes |-> cc.eligibleCustomerTypes,
                Outlets |-> cc.Outlets,
                tierRanks |-> <<>>])

\* findUnique of a cashback configuration with its review, its outlets and its
\* active, not deleted, approved tiers: Null, or Some of what the function
\* goes on to write.
ReadCashback(table, id) ==
  IF IsNull(table[id]) THEN Null
  ELSE LET cc == Val(table[id])
           tiers == {t \in cc.CashbackConfigurationTiers :
                       t.isActive = TRUE /\ IsNull(t.deletedAt) /\ t.reviewStatus = Some("Approved")}
       IN Some([kind |-> "CASHBACK", sourceId |-> id, merchantId |-> cc.merchantId,
                isActiveSnapshot |-> cc.isActive,
                isApprovedSnapshot |-> isApproved(cc.Review),
                deletedAtSnapshot |-> cc.deletedAt,
                budgetExhausted |-> cashbackBudgetExhausted(cc.netCashbackBudget, cc.usedCashbackBudget),
                startDate |-> cc.startDate, endDate |-> cc.endDate,
                maxCashbackPercentBps |-> Some(MaxOf({t.percentage : t \in tiers}, 0)),
                eligibleCustomerTypes |-> cc.eligibleCustomerTypes,
                Outlets |-> cc.Outlets,
                tierRanks |-> <<>>])

\* findUnique of an exclusive offer; no merchant id ends the function like a
\* missing offer.
ReadExclusive(table, id) ==
  IF IsNull(table[id]) THEN Null
  ELSE LET eo == Val(table[id])
       IN IF IsNull(eo.merchantId) THEN Null
          ELSE Some([kind |-> "EXCLUSIVE", sourceId |-> id, merchantId |-> Val(eo.merchantId),
                     isActiveSnapshot |-> eo.isActive,
                     isApprovedSnapshot |-> isApproved(eo.Review),
                     deletedAtSnapshot |-> eo.deletedAt,
                     budgetExhausted |-> offerBudgetExhausted(eo.netOfferBudget, eo.usedOfferBudget),
                     startDate |-> eo.startDate, endDate |-> eo.endDate,
                     maxCashbackPercentBps |-> Null,
                     eligibleCustomerTypes |-> eo.eligibleCustomerTypes,
                     Outlets |-> eo.Outlets,
                     tierRanks |-> <<>>])

ReadLoyaltyIgnoresRewards(table, outlets, merchantId) ==
  IF IsNull(table[merchantId]) THEN Null
  ELSE LET lp == Val(table[merchantId])
           tiers == SelectSeq(lp.LoyaltyTiers,
                      LAMBDA t : t.isActive = TRUE /\ IsNull(t.deletedAt) /\ isApproved(t.Review))
           activeApprovedTierRanks ==
             [i \in 1..Len(tiers) |-> NumberValue(customerTypeRank(tiers[i].minCustomerType))]
       IN Some([kind |-> "LOYALTY", sourceId |-> lp.id, merchantId |-> merchantId,
                isActiveSnapshot |-> lp.isActive,
                isApprovedSnapshot |-> isApproved(lp.Review) /\ Len(activeApprovedTierRanks) > 0,
                deletedAtSnapshot |-> Null,
                budgetExhausted |-> pointsLimitExhausted(lp.pointsIssuedLimit, lp.pointsUsedInPeriod),
                startDate |-> Null, endDate |-> Null,
                maxCashbackPercentBps |-> Null,
                eligibleCustomerTypes |-> <<>>,
                Outlets |-> {o.id : o \in {x \in outlets : x.merchantId = merchantId}},
                tierRanks |-> activeApprovedTierRanks])

\* findUnique of a merchant with its loyalty program, the program's tiers and
\* rewards, and the merchant's outlets.
ReadLoyalty(table, outlets, merchantId) ==
  IF IsNull(table[merchantId]) THEN Null
  ELSE LET lp == Val(table[merchantId])
           tiers == SelectSeq(lp.LoyaltyTiers,
                      LAMBDA t : t.isActive = TRUE /\ IsNull(t.deletedAt) /\ isApproved(t.Review))
           activeApprovedTierRanks ==
             [i \in 1..Len(tiers) |-> NumberValue(customerTypeRank(tiers[i].minCustomerType))]
           hasRewards == \E r \in lp.MerchantLoyaltyRewards : r.isActive = TRUE /\ isApproved(r.Review)
       IN Some([kind |-> "LOYALTY", sourceId |-> lp.id, merchantId |-> merchantId,
                isActiveSnapshot |-> lp.isActive,
                isApprovedSnapshot |-> isApproved(lp.Review) /\ hasRewards
                                       /\ Len(activeApprovedTierRanks) > 0,
                deletedAtSnapshot |-> Null,
                budgetExhausted |-> pointsLimitExhausted(lp.pointsIssuedLimit, lp.pointsUsedInPeriod),
                startDate |-> Null, endDate |-> Null,
                maxCashbackPercentBps |-> Null,
                eligibleCustomerTypes |-> <<>>,
                Outlets |-> {o.id : o \in {x \in outlets : x.merchantId = merchantId}},
                tierRanks |-> activeApprovedTierRanks])

SourceRef(oi, kind) ==
  IF kind = "CASHBACK" THEN oi.cashbackConfigurationId
  ELSE IF kind = "EXCLUSIVE" THEN oi.exclusiveOfferId
  ELSE oi.loyaltyProgramId

\* The row prisma.offerIndex.upsert finds by its unique source reference.
FindIndex(t, snap) ==
  {oi \in t.offerIndex : SourceRef(oi, snap.kind) = Some(snap.sourceId)}

SnapshotColumns(oi, snap) ==
  [oi EXCEPT !.kind = snap.kind, !.merchantId = snap.merchantId,
             !.isActiveSnapshot = snap.isActiveSnapshot,
             !.isApprovedSnapshot = snap.isApprovedSnapshot,
             !.deletedAtSnapshot = snap.deletedAtSnapshot,
             !.budgetExhausted = snap.budgetExhausted,
             !.startDate = snap.startDate, !.endDate = snap.endDate,
             !.maxCashbackPercentBps = snap.maxCashbackPercentBps]

NewIndexRow(id, snap) ==
  [id |-> id, kind |-> snap.kind, merchantId |-> snap.merchantId,
   cashbackConfigurationId |-> IF snap.kind = "CASHBACK" THEN Some(snap.sourceId) ELSE Null,
   exclusiveOfferId |-> IF snap.kind = "EXCLUSIVE" THEN Some(snap.sourceId) ELSE Null,
   loyaltyProgramId |-> IF snap.kind = "LOYALTY" THEN Some(snap.sourceId) ELSE Null,
   isActiveSnapshot |-> snap.isActiveSnapshot,
   isApprovedSnapshot |-> snap.isApprovedSnapshot,
   deletedAtSnapshot |-> snap.deletedAtSnapshot,
   budgetExhausted |-> snap.budgetExhausted,
   startDate |-> snap.startDate, endDate |-> snap.endDate,
   maxCashbackPercentBps |-> snap.maxCashbackPercentBps]

UpsertAlwaysCreates(t, snap) ==
  [tables |-> [t EXCEPT !.offerIndex = t.offerIndex \cup {NewIndexRow(t.nextId, snap)},
                        !.nextId = t.nextId + 1],
   id |-> t.nextId]

\* prisma.offerIndex.upsert(...): [tables, id], the tables after it and the id
\* of the row.
Upsert(t, snap) ==
  LET found == FindIndex(t, snap)
  IN IF found # {}
     THEN LET oi == CHOOSE x \in found : TRUE
          IN [tables |-> [t EXCEPT !.offerIndex = (t.offerIndex \ {oi}) \cup {SnapshotColumns(oi, snap)}],
              id |-> oi.id]
     ELSE [tables |-> [t EXCEPT !.offerIndex = t.offerIndex \cup {NewIndexRow(t.nextId, snap)},
                                !.nextId = t.nextId + 1],
           id |-> t.nextId]

\* The transaction fails, and leaves the tables as they were, when the parent
\* row is gone (foreign key) or when createMany of the customer types meets the
\* unique index (offerIndexId, customerType): that createMany has no
\* skipDuplicates.
ReplaceChildrenFails(t, id, snap) ==
  \/ ~\E oi \in t.offerIndex : oi.id = id
  \/ \E i, j \in 1..Len(snap.eligibleCustomerTypes) :
       i # j /\ snap.eligibleCustomerTypes[i] = snap.eligibleCustomerTypes[j]

\* prisma.$transaction([deleteMany, deleteMany, createMany, createMany]) of the
\* children of row id; for a loyalty program the tier rows take the place of
\* the customer types.
ReplaceChildren(t, id, snap) ==
  IF ReplaceChildrenFails(t, id, snap) THEN t
  ELSE [t EXCEPT
     !.offerIndexCustomerType =
        IF snap.kind = "LOYALTY" THEN @
        ELSE {r \in @ : r.offerIndexId # id} \cup
             {[offerIndexId |-> id, customerType |-> ct] : ct \in Range(snap.eligibleCustomerTypes)},
     !.offerIndexOutlet =
        {r \in @ : r.offerIndexId # id} \cup
        {[offerIndexId |-> id, outletId |-> o] : o \in snap.Outlets},
     !.loyaltyTierIndex =
        IF snap.kind # "LOYALTY" THEN @
        ELSE {r \in @ : r.offerIndexId # id} \cup
             {[offerIndexId |-> id, tierRank |-> snap.tierRanks[n], isActiveSnapshot |-> TRUE,
               isApprovedSnapshot |-> TRUE, deletedAtSnapshot |-> Null, n |-> n] :
                n \in 1..Len(snap.tierRanks)}]

\* A recompute function run alone from its read to its end: the tables after it.
RebuildResultDropsOrphans(t, snap) ==
  IF IsNull(snap)
  THEN [t EXCEPT !.offerIndex =
          {oi \in t.offerIndex :
             ~(IsNull(oi.cashbackConfigurationId) /\ IsNull(oi.exclusiveOfferId)
               /\ IsNull(oi.loyaltyProgramId))}]
  ELSE LET up == Upsert(t, Val(snap))
       IN ReplaceChildren(up.tables, up.id, Val(snap))

RebuildResult(t, snap) ==
  IF IsNull(snap) THEN t
  ELSE LET up == Upsert(t, Val(snap))
       IN ReplaceChildren(up.tables, up.id, Val(snap))

rebuildCashbackIndex(t, id) == RebuildResult(t, ReadCashback(cashbackConfiguration, id))
rebuildExclusiveIndex(t, id) == RebuildResult(t, ReadExclusive(exclusiveOffer, id))
rebuildLoyaltyIndexByMerchant(t, merchantId) ==
  RebuildResult(t, ReadLoyalty(loyaltyProgram, outlet, merchantId))

\* ------------------------------------------------------------ the universe

U1 == <<"u", "1">>
M1 == <<"m", "1">>
M2 == <<"m", "2">>
O1 == <<"o", "1">>
O2 == <<"o", "2">>
O3 == <<"o", ":", "3">>
O4 == <<"o", ":", "4">>
CB1 == <<"c", "b", "1">>
CB2 == <<"c", "b", "2">>
EX1 == <<"e", "x", "1">>
LP2 == <<"l", "p", "2">>
Food == <<"f", "o", "o", "d">>

MaxBps == 1          \* percentages (sort keys) range over 0..MaxBps
MaxTakeInput == 3    \* a client asks for 1..MaxTakeInput outlets per page
MaxFetched == 6      \* a client stops paging after this many outlets

\* The API process: REDIS_URL of its environment (Null when unset), the worker
\* startOfferIndexWorker returned (Null before the call and when it returned
\* null) and the number of timers startBackstopCron installed.
RedisUrl == <<"r", "e", "d", "i", "s", ":", "/", "/", "q">>
ConfiguredProcess == [REDIS_URL |-> Some(RedisUrl), worker |-> Some("offer-index"), timers |-> 1]

\* env.REDIS_URL ? new IORedis(env.REDIS_URL, ...) : null
redisConnection ==
  IF IsNull(proc.REDIS_URL) \/ Val(proc.REDIS_URL) = <<>> THEN Null
  ELSE Some(Val(proc.REDIS_URL))

\* redisConnection ? new Queue("offer-index", ...) : null
offerIndexQueue == IF IsNull(redisConnection) THEN Null ELSE Some("offer-index")

OfferIndexRow(id, kind, merchantId, sourceId, flags, window, maxBps) ==
  [id |-> id, kind |-> kind, merchantId |-> merchantId,
   cashbackConfigurationId |-> IF kind = "CASHBACK" THEN Some(sourceId) ELSE Null,
   exclusiveOfferId |-> IF kind = "EXCLUSIVE" THEN Some(sourceId) ELSE Null,
   loyaltyProgramId |-> IF kind = "LOYALTY" THEN Some(sourceId) ELSE Null,
   isActiveSnapshot |-> flags.isActive, isApprovedSnapshot |-> flags.isApproved,
   deletedAtSnapshot |-> flags.deletedAt, budgetExhausted |-> flags.budgetExhausted,
   startDate |-> window[1], endDate |-> window[2],
   maxCashbackPercentBps |-> maxBps]

LiveFlags == [isActive |-> TRUE, isApproved |-> TRUE, deletedAt |-> Null,
              budgetExhausted |-> FALSE]
NoWindow == <<Null, Null>>

OutletRow(id, merchantId) ==
  [id |-> id, merchantId |-> merchantId, isActive |-> TRUE,
   reviewStatus |-> Some("Approved"), name |-> id, description |-> Null]
MerchantRow(id) ==
  [id |-> id, status |-> "Active", category |-> Food, businessName |-> id]
PaybillRow(outletId) ==
  [outletId |-> outletId, isActive |-> TRUE, deletedAt |-> Null,
   reviewStatus |-> Some("Approved")]

NoSession == [userId |-> U1, input |-> Null, resp |-> Null, seen |-> <<>>, offers |-> Null]

\* The source rows the collaborators start from.
CashbackTier(active, deletedAt, review, percentage) ==
  [isActive |-> active, deletedAt |-> deletedAt, reviewStatus |-> review,
   percentage |-> percentage]

\* A cashback configuration of merchant M1 that is eligible for everyone.
BaseCashback ==
  [merchantId |-> M1, isActive |-> TRUE, Review |-> Some("Approved"), deletedAt |-> Null,
   netCashbackBudget |-> Num(2), usedCashbackBudget |-> Num(1),
   startDate |-> Null, endDate |-> Null,
   eligibleCustomerTypes |-> <<"All">>, Outlets |-> {O1},
   CashbackConfigurationTiers |-> {CashbackTier(TRUE, Null, Some("Approved"), 1)}]

BaseExclusive ==
  [merchantId |-> Some(M1), isActive |-> TRUE, Review |-> Some("Approved"), deletedAt |-> Null,
   netOfferBudget |-> Num(2), usedOfferBudget |-> Num(1),
   startDate |-> Null, endDate |-> Null,
   eligibleCustomerTypes |-> <<"NonCustomer">>, Outlets |-> {O1, O2}]

LoyaltyTier(active, deletedAt, review, minCustomerType) ==
  [isActive |-> active, deletedAt |-> deletedAt, Review |-> review,
   minCustomerType |-> minCustomerType]
Reward(active, review) == [isActive |-> active, Review |-> review]

\* The loyalty program of merchant M2, with a tier for New and a tier for Vip.
BaseLoyalty ==
  [id |-> LP2, isActive |-> TRUE, Review |-> Some("Approved"),
   pointsIssuedLimit |-> Num(2), pointsUsedInPeriod |-> Num(1),
   LoyaltyTiers |-> <<LoyaltyTier(TRUE, Null, Some("Approved"), Some("New")),
                      LoyaltyTier(TRUE, Null, Some("Approved"), Some("Vip"))>>,
   MerchantLoyaltyRewards |-> {Reward(TRUE, Some("Approved"))}]

\* No source rows, an empty index, an idle queue.
InitEmptySource ==
  /\ cashbackConfiguration = [id \in {CB1, CB2} |-> Null]
  /\ exclusiveOffer = [id \in {EX1} |-> Null]
  /\ loyaltyProgram = [m \in {M1, M2} |-> Null]
  /\ customerType = {}
InitEmptyIndex ==
  /\ offerIndex = {}
  /\ offerIndexCustomerType = {}
  /\ offerIndexOutlet = {}
  /\ loyaltyTierIndex = {}
  /\ nextId = 1
InitIdleQueue ==
  /\ jobs = <<>>
  /\ nextJobId = 1
  /\ enqueued = Null
  /\ runs = <<>>
  /\ offerIndexRebuildLog = <<>>
InitStatic(outletIds) ==
  /\ outlet = {OutletRow(o, M1) : o \in outletIds}
  /\ merchant = {MerchantRow(M1), MerchantRow(M2)}
  /\ paybillOrTill = {PaybillRow(o) : o \in outletIds}
  /\ proc = ConfiguredProcess

\* ------------------------------------------------- a client of the resolver

PlainInput(take, cursor) ==
  [search |-> Null, category |-> Null, percentage |-> Null,
   take |-> Some(take), cursor |-> cursor]

NodeIds(result) == [i \in 1..Len(result.nodes) |-> result.nodes[i].id]

\* The client asks for the first page.
FirstPage(userId, take) ==
  LET input == PlainInput(take, Null)
      r == offersResolver(userId, input)
  IN /\ session' = [userId |-> userId, input |-> Some(input),
                    resp |-> Some(r.result), seen |-> NodeIds(r.result), offers |-> Null]
     /\ redis' = r.redis
     /\ lastOp' = IF r.cached THEN "cachedPage" ELSE "firstPage"
     /\ UNCHANGED <<srcVars, staticVars, idxVars, userMerchantProfile, queueVars, now>>

\* The client follows nextCursor while hasNextPage is true.
NextPage ==
  /\ ~IsNull(session.resp)
  /\ Val(session.resp).hasNextPage
  /\ Len(session.seen) < MaxFetched
  /\ LET input == [Val(session.input) EXCEPT !.cursor = Val(session.resp).nextCursor]
         r == offersResolver(session.userId, input)
     IN /\ session' = [session EXCEPT !.input = Some(input), !.resp = Some(r.result),
                                      !.seen = session.seen \o NodeIds(r.result),
                                      !.offers = Null]
        /\ redis' = r.redis
  /\ lastOp' = "nextPage"
  /\ UNCHANGED <<srcVars, staticVars, idxVars, userMerchantProfile, queueVars, now>>

\* Paging over a fixed index: two cashback offers open to everyone, each with
\* its own percentage and its own outlets.
PageOutlets == {O1, O2, O3, O4}

InitPage ==
  /\ InitEmptySource /\ InitIdleQueue /\ InitStatic(PageOutlets)
  /\ \E a \in 0..MaxBps, b \in 0..MaxBps :
       offerIndex = {OfferIndexRow(1, "CASHBACK", M1, CB1, LiveFlags, NoWindow, Some(a)),
                     OfferIndexRow(2, "CASHBACK", M1, CB2, LiveFlags, NoWindow, Some(b))}
  /\ offerIndexCustomerType = {[offerIndexId |-> i, customerType |-> "All"] : i \in {1, 2}}
  /\ \E A \in SUBSET PageOutlets, B \in SUBSET {O1, O3} :
       offerIndexOutlet = {[offerIndexId |-> 1, outletId |-> o] : o \in A}
                          \cup {[offerIndexId |-> 2, outletId |-> o] : o \in B}
  /\ loyaltyTierIndex = {}
  /\ nextId = 3
  /\ userMerchantProfile = {}
  /\ now = 0
  /\ redis \in {Null, Some({})}
  /\ session = NoSession
  /\ lastOp = "init"

NextPageSpec ==
  \/ \E take \in 1..MaxTakeInput : FirstPage(U1, take)
  \/ NextPage

SpecPage == InitPage /\ [][NextPageSpec]_vars

\* All outlets the request of the session is eligible for: the query without
\* cursor and without limit.
EligibleOutletIds(userId, input) ==
  {r.outletId : r \in GroupedRows(userId, QueryOf(input), now)}

NoDuplicates(seq) == \A i, j \in 1..Len(seq) : i # j => seq[i] # seq[j]

SessionExhausted == ~IsNull(session.resp) /\ ~Val(session.resp).hasNextPage

\* C1: paging from no cursor along nextCursor until hasNextPage is false
\* returns every eligible outlet exactly once: no outlet on two pages, none
\* skipped.
C1_PaginationExactlyOnce ==
  /\ NoDuplicates(session.seen)
  /\ SessionExhausted =>
       Range(session.seen) = EligibleOutletIds(session.userId, Val(session.input))

\* ------------------------------------------------ eligibility of one user

\* The Outlet field resolvers of the page's nodes, through the three loaders.
LoadOffers ==
  /\ ~IsNull(session.resp)
  /\ IsNull(session.offers)
  /\ LET ids == Range(NodeIds(Val(session.resp)))
     IN session' = [session EXCEPT !.offers =
          Some([cashback |-> cashbackByOutlet(session.userId, ids, now),
                exclusive |-> exclusiveByOutlet(session.userId, ids, now),
                loyalty |-> loyaltyByOutlet(session.userId, ids, now)])]
  /\ lastOp' = "loadOffers"
  /\ UNCHANGED <<srcVars, staticVars, idxVars, userMerchantProfile, queueVars, now, redis>>

\* The client drops the page it holds.
Forget ==
  /\ session # NoSession
  /\ session' = NoSession
  /\ lastOp' = "forget"
  /\ UNCHANGED <<srcVars, staticVars, idxVars, userMerchantProfile, queueVars, now, redis>>

\* A collaborator sets, changes or removes the user's customer type at a merchant.
SetCustomerType(userId, merchantId, type) ==
  /\ customerType' = {r \in customerType : ~(r.userId = userId /\ r.merchantId = merchantId)}
                     \cup (IF IsNull(type) THEN {}
                           ELSE {[userId |-> userId, merchantId |-> merchantId, type |-> Val(type)]})
  /\ customerType' # customerType
  /\ lastOp' = "setCustomerType"
  /\ UNCHANGED <<cashbackConfiguration, exclusiveOffer, loyaltyProgram, staticVars, idxVars,
                 userMerchantProfile, queueVars, now, serveVars>>

\* rebuildUserMerchantProfilesForUser(prisma, userId), run alone.
RebuildProfiles(userId) ==
  /\ userMerchantProfile' = RebuildProfilesResult(userMerchantProfile, customerType, userId)
  /\ lastOp' = "rebuildProfiles"
  /\ UNCHANGED <<srcVars, staticVars, idxVars, queueVars, now, serveVars>>

FlagChoices ==
  {LiveFlags,
   [LiveFlags EXCEPT !.isActive = FALSE],
   [LiveFlags EXCEPT !.isApproved = FALSE],
   [LiveFlags EXCEPT !.deletedAt = Some(0)],
   [LiveFlags EXCEPT !.budgetExhausted = TRUE],
   [isActive |-> FALSE, isApproved |-> FALSE, deletedAt |-> Some(0), budgetExhausted |-> TRUE]}

\* rebuildLoyaltyIndexByMerchant never sets deletedAtSnapshot.
LoyaltyFlagChoices == {f \in FlagChoices : IsNull(f.deletedAt)}

TypeListChoices == {{"All"}, {"Vip"}, {"NonCustomer"}, {"New", "Vip"}, {}}
TierRankChoices == {{}, {1}, {5}}

TierRow(offerIndexId, rank, n) ==
  [offerIndexId |-> offerIndexId, tierRank |-> rank, isActiveSnapshot |-> TRUE,
   isApprovedSnapshot |-> TRUE, deletedAtSnapshot |-> Null, n |-> n]

\* One user and three offers: a cashback offer and an exclusive offer of
\* merchant M1, a loyalty program of merchant M2.
InitElig ==
  /\ cashbackConfiguration = [id \in {CB1, CB2} |-> IF id = CB1 THEN Some(BaseCashback) ELSE Null]
  /\ exclusiveOffer = [id \in {EX1} |-> Some(BaseExclusive)]
  /\ loyaltyProgram = [m \in {M1, M2} |-> IF m = M2 THEN Some(BaseLoyalty) ELSE Null]
  /\ customerType = {}
  /\ InitIdleQueue
  /\ outlet = {OutletRow(O1, M1), OutletRow(O2, M1), OutletRow(O3, M2)}
  /\ merchant = {MerchantRow(M1), MerchantRow(M2)}
  /\ paybillOrTill = {PaybillRow(O1), PaybillRow(O2), PaybillRow(O3)}
  /\ proc = ConfiguredProcess
  /\ \E cf \in {LiveFlags, [LiveFlags EXCEPT !.budgetExhausted = TRUE]}, lf \in LoyaltyFlagChoices :
       offerIndex = {OfferIndexRow(1, "CASHBACK", M1, CB1, cf, NoWindow, Some(1)),
                     OfferIndexRow(2, "EXCLUSIVE", M1, EX1, LiveFlags, NoWindow, Null),
                     OfferIndexRow(3, "LOYALTY", M2, LP2, lf, NoWindow, Null)}
  /\ \E types \in TypeListChoices :
       offerIndexCustomerType = {[offerIndexId |-> 1, customerType |-> ct] : ct \in types}
                                \cup {[offerIndexId |-> 2, customerType |-> "NonCustomer"]}
  /\ offerIndexOutlet = {[offerIndexId |-> 1, outletId |-> O1],
                         [offerIndexId |-> 2, outletId |-> O1],
                         [offerIndexId |-> 2, outletId |-> O2],
                         [offerIndexId |-> 3, outletId |-> O3]}
  /\ \E ranks \in TierRankChoices :
       loyaltyTierIndex = {TierRow(3, r, r) : r \in ranks}
  /\ nextId = 4
  /\ userMerchantProfile = {}
  /\ now = 0
  /\ redis = Null
  /\ session = NoSession
  /\ lastOp = "init"

NextElig ==
  \/ FirstPage(U1, MaxTakeInput)
  \/ LoadOffers
  \/ Forget
  \/ \E type \in {Null, Some("New"), Some("Vip")} :
       session = NoSession /\ SetCustomerType(U1, M1, type)
  \/ \E type \in {Null, Some("New"), Some("Vip")} :
       session = NoSession /\ SetCustomerType(U1, M2, type)
  \/ session = NoSession /\ RebuildProfiles(U1)

SpecElig == InitElig /\ [][NextElig]_vars

ResponseIds == Range(NodeIds(Val(session.resp)))

\* The customer-type rule in the words of its contract, on the tables.
TypesOf(oi) == {ect.customerType : ect \in {x \in offerIndexCustomerType : x.offerIndexId = oi.id}}
ProfilesAt(userId, merchantId) ==
  {p \in userMerchantProfile : p.userId = userId /\ p.merchantId = merchantId}
PassesCustomerTypeRule(oi, userId) ==
  \/ "All" \in TypesOf(oi)
  \/ \E p \in ProfilesAt(userId, oi.merchantId) : p.customerType \in TypesOf(oi)
  \/ ProfilesAt(userId, oi.merchantId) = {} /\ "NonCustomer" \in TypesOf(oi)

\* The offers the resolution query and the loader let through for the user.
ResolverOffers(userId, kind) ==
  {r.offerIndexId : r \in {x \in CashbackOrExclusiveMatches(userId, Null, Null, now) :
                             \E oi \in offerIndex : oi.id = x.offerIndexId /\ oi.kind = kind}}
LoaderOffers(userId, kind) ==
  {r.offerIndexId :
     r \in eligibleOfferIndexRowsForOutlets(userId, {o.id : o \in outlet}, kind, now)}

\* C2: a CASHBACK or EXCLUSIVE offer that is live and mapped to an outlet is
\* let through for a user exactly when its type list has 'All', or has the
\* type of the user's profile at the offer's merchant, or has 'NonCustomer'
\* while the user has no profile there; the loader lets through the same
\* offers, and the response and the loaded offers follow the rule.
C2_CustomerTypeRule ==
  /\ \A oi \in offerIndex :
       (/\ oi.kind \in {"CASHBACK", "EXCLUSIVE"}
        /\ SnapshotLive(oi) /\ DateWindowOpen(oi, now)
        /\ \E oio \in offerIndexOutlet : oio.offerIndexId = oi.id) =>
         /\ oi.id \in ResolverOffers(U1, oi.kind) <=> PassesCustomerTypeRule(oi, U1)
         /\ oi.id \in LoaderOffers(U1, oi.kind) <=> PassesCustomerTypeRule(oi, U1)
  /\ \A kind \in {"CASHBACK", "EXCLUSIVE"} : ResolverOffers(U1, kind) = LoaderOffers(U1, kind)
  /\ lastOp = "firstPage" =>
       \A o \in {O1, O2} :
         o \in ResponseIds <=>
           \E oi \in offerIndex :
             /\ oi.kind \in {"CASHBACK", "EXCLUSIVE"}
             /\ SnapshotLive(oi)
             /\ \E oio \in offerIndexOutlet : oio.offerIndexId = oi.id /\ oio.outletId = o
             /\ PassesCustomerTypeRule(oi, U1)
  /\ (lastOp = "loadOffers" /\ O1 \in ResponseIds) =>
       (CB1 \in Val(session.offers).cashback[O1] <=>
          \E oi \in offerIndex : /\ oi.id = 1 /\ SnapshotLive(oi)
                                 /\ PassesCustomerTypeRule(oi, U1))

\* The offer lists only 'Vip', the user's profile at the merchant is 'Vip',
\* and the outlet is in the response with the offer loaded for it.
C2_Witness ==
  /\ lastOp = "loadOffers"
  /\ \E oi \in offerIndex : oi.id = 1 /\ TypesOf(oi) = {"Vip"} /\ SnapshotLive(oi)
  /\ \E p \in ProfilesAt(U1, M1) : p.customerType = "Vip"
  /\ O1 \in ResponseIds
  /\ Val(session.offers).cashback[O1] = {CB1}

\* The same offer for a user whose profile there is 'New': the outlet is not
\* in the response.
C2_WitnessNew ==
  /\ lastOp = "firstPage"
  /\ \E oi \in offerIndex : oi.id = 1 /\ TypesOf(oi) = {"Vip"} /\ SnapshotLive(oi)
  /\ \E p \in ProfilesAt(U1, M1) : p.customerType = "New"
  /\ O1 \notin ResponseIds

\* The user's rank at a merchant: 0 without a profile.
RankAt(userId, merchantId) ==
  MaxOf({p.rank : p \in ProfilesAt(userId, merchantId)}, 0)

LoyaltyEligible(oi, userId) ==
  /\ oi.isActiveSnapshot /\ oi.isApprovedSnapshot
  /\ IsNull(oi.deletedAtSnapshot) /\ ~oi.budgetExhausted
  /\ \E lti \in loyaltyTierIndex :
       lti.offerIndexId = oi.id /\ lti.tierRank <= RankAt(userId, oi.merchantId)

LoyaltyOutlets(userId) == {r.outletId : r \in eligible_loyalty(userId)}

\* An outlet is eligible through a LOYALTY offer exactly when the offer is
\* active, approved, not deleted, not exhausted and one of its tier rows has
\* tierRank <= the user's rank at the merchant (0 without a profile); the
\* response has the outlet exactly then.
LoyaltyRuleHolds ==
  /\ \A o \in outlet :
       o.id \in LoyaltyOutlets(U1) <=>
         \E oi \in offerIndex :
           /\ oi.kind = "LOYALTY"
           /\ \E oio \in offerIndexOutlet : oio.offerIndexId = oi.id /\ oio.outletId = o.id
           /\ LoyaltyEligible(oi, U1)
  /\ lastOp = "firstPage" =>
       (O3 \in ResponseIds <=> \E oi \in offerIndex : oi.kind = "LOYALTY" /\ LoyaltyEligible(oi, U1))

\* A step that does not lower the user's rank at the merchant of the loyalty
\* offer removes no loyalty outlet from what the user resolves.
RankMonotone ==
  (RankAt(U1, M2)' >= RankAt(U1, M2)) => (LoyaltyOutlets(U1) \subseteq LoyaltyOutlets(U1)')

\* C3: an outlet is eligible through a LOYALTY offer if and only if the offer
\* is active, approved, not deleted and not budget-exhausted and at least one
\* of its LoyaltyTierIndex rows has tierRank <= the user's rank at the offer's
\* merchant (0 without a profile); hence raising the user's rank never removes
\* a loyalty outlet from the user's result.
C3_LoyaltyRule == []LoyaltyRuleHolds /\ [][RankMonotone]_vars

\* The program's tier asks for rank 5, the user's profile there is 'Vip', and
\* the response has the outlet.
C3_Witness ==
  /\ lastOp = "firstPage"
  /\ \E lti \in loyaltyTierIndex : lti.offerIndexId = 3 /\ lti.tierRank = 5
  /\ RankAt(U1, M2) = 5
  /\ O3 \in ResponseIds

\* ------------------------------------------ recomputes run one at a time

MaxBudget == 2            \* budget counters range over 0..MaxBudget
SeedBudget == 100         \* the budget of the seed's exhausted configuration

BudgetValues == {Num(n) : n \in 0..MaxBudget} \cup {NullBudget, BadBudget}

\* The states a collaborator may leave the configuration in.
CashbackVersions ==
  {[BaseCashback EXCEPT !.netCashbackBudget = n, !.usedCashbackBudget = u] :
      n \in BudgetValues, u \in BudgetValues}
  \cup {[BaseCashback EXCEPT !.netCashbackBudget = Num(SeedBudget), !.usedCashbackBudget = Num(u)] :
          u \in {SeedBudget - 1, SeedBudget}}
  \cup {[BaseCashback EXCEPT !.isActive = FALSE],
        [BaseCashback EXCEPT !.Review = Some("Pending")],
        [BaseCashback EXCEPT !.Review = Null],
        [BaseCashback EXCEPT !.deletedAt = Some(0)]}
  \cup {[BaseCashback EXCEPT !.eligibleCustomerTypes = l] :
          l \in {<<"Vip">>, <<"New", "Vip">>, <<"Vip", "Vip">>, <<>>}}
  \cup {[BaseCashback EXCEPT !.Outlets = {O1, O2}], [BaseCashback EXCEPT !.Outlets = {}]}
  \cup {[BaseCashback EXCEPT !.CashbackConfigurationTiers = ts] :
          ts \in {{},
                  {CashbackTier(FALSE, Null, Some("Approved"), MaxBps + 1)},
                  {CashbackTier(TRUE, Null, Some("Approved"), 1),
                   CashbackTier(TRUE, Null, Some("Approved"), MaxBps + 1)}}}

ExclusiveVersions ==
  {[BaseExclusive EXCEPT !.netOfferBudget = n, !.usedOfferBudget = u] :
      n \in BudgetValues, u \in BudgetValues}
  \cup {[BaseExclusive EXCEPT !.isActive = FALSE],
        [BaseExclusive EXCEPT !.Review = Some("Rejected")],
        [BaseExclusive EXCEPT !.deletedAt = Some(0)],
        [BaseExclusive EXCEPT !.merchantId = Null],
        [BaseExclusive EXCEPT !.eligibleCustomerTypes = <<"All">>],
        [BaseExclusive EXCEPT !.Outlets = {O2}]}

LoyaltyVersions ==
  {[BaseLoyalty EXCEPT !.pointsIssuedLimit = n, !.pointsUsedInPeriod = u] :
      n \in BudgetValues, u \in BudgetValues \ {NullBudget}}
  \cup {[BaseLoyalty EXCEPT !.isActive = FALSE],
        [BaseLoyalty EXCEPT !.Review = Some("Pending")]}
  \cup {[BaseLoyalty EXCEPT !.LoyaltyTiers = ts] :
          ts \in {<<>>,
                  <<LoyaltyTier(FALSE, Null, Some("Approved"), Some("New"))>>,
                  <<LoyaltyTier(TRUE, Some(0), Some("Approved"), Some("New"))>>,
                  <<LoyaltyTier(TRUE, Null, Some("Pending"), Some("New"))>>,
                  <<LoyaltyTier(TRUE, Null, Some("Approved"), Some("Vip"))>>,
                  <<LoyaltyTier(TRUE, Null, Some("Approved"), Some("Vip")),
                    LoyaltyTier(TRUE, Null, Some("Approved"), Some("Vip"))>>,
                  <<LoyaltyTier(TRUE, Null, Some("Approved"), Null)>>}}
  \cup {[BaseLoyalty EXCEPT !.MerchantLoyaltyRewards = rs] :
          rs \in {{}, {Reward(FALSE, Some("Approved"))}, {Reward(TRUE, Some("Pending"))}}}

\* A collaborator updates an existing source row.
ChangeCashback(id, v) ==
  /\ ~IsNull(cashbackConfiguration[id])
  /\ cashbackConfiguration[id] # Some(v)
  /\ cashbackConfiguration' = [cashbackConfiguration EXCEPT ![id] = Some(v)]
  /\ lastOp' = "changeCashback"
  /\ UNCHANGED <<exclusiveOffer, loyaltyProgram, customerType, staticVars, idxVars,
                 userMerchantProfile, queueVars, now, serveVars>>

ChangeExclusive(id, v) ==
  /\ ~IsNull(exclusiveOffer[id])
  /\ exclusiveOffer[id] # Some(v)
  /\ exclusiveOffer' = [exclusiveOffer EXCEPT ![id] = Some(v)]
  /\ lastOp' = "changeExclusive"
  /\ UNCHANGED <<cashbackConfiguration, loyaltyProgram, customerType, staticVars, idxVars,
                 userMerchantProfile, queueVars, now, serveVars>>

ChangeLoyalty(merchantId, v) ==
  /\ ~IsNull(loyaltyProgram[merchantId])
  /\ loyaltyProgram[merchantId] # Some(v)
  /\ loyaltyProgram' = [loyaltyProgram EXCEPT ![merchantId] = Some(v)]
  /\ lastOp' = "changeLoyalty"
  /\ UNCHANGED <<cashbackConfiguration, exclusiveOffer, customerType, staticVars, idxVars,
                 userMerchantProfile, queueVars, now, serveVars>>

\* The recompute functions, each run alone from start to end.
RebuildCashback(id) ==
  /\ SetIndexTables(rebuildCashbackIndex(IndexTables, id))
  /\ lastOp' = "rebuildCashback"
  /\ UNCHANGED <<srcVars, staticVars, userMerchantProfile, queueVars, now, serveVars>>

RebuildExclusive(id) ==
  /\ SetIndexTables(rebuildExclusiveIndex(IndexTables, id))
  /\ lastOp' = "rebuildExclusive"
  /\ UNCHANGED <<srcVars, staticVars, userMerchantProfile, queueVars, now, serveVars>>

RebuildLoyalty(merchantId) ==
  /\ SetIndexTables(rebuildLoyaltyIndexByMerchant(IndexTables, merchantId))
  /\ lastOp' = "rebuildLoyalty"
  /\ UNCHANGED <<srcVars, staticVars, userMerchantProfile, queueVars, now, serveVars>>

\* One source entity exists (a cashback configuration, an exclusive offer, a
\* loyalty program or a customer type of the user); nothing is indexed yet.
InitRebuild ==
  /\ \E k \in {"cashback", "exclusive", "loyalty", "customerType"} :
       /\ cashbackConfiguration =
            [id \in {CB1, CB2} |-> IF k = "cashback" /\ id = CB1 THEN Some(BaseCashback) ELSE Null]
       /\ exclusiveOffer = [id \in {EX1} |-> IF k = "exclusive" THEN Some(BaseExclusive) ELSE Null]
       /\ loyaltyProgram =
            [m \in {M1, M2} |-> IF k = "loyalty" /\ m = M2 THEN Some(BaseLoyalty) ELSE Null]
       /\ customerType = IF k = "customerType"
                           THEN {[userId |-> U1, merchantId |-> M2, type |-> "New"]}
                           ELSE {}
  /\ InitEmptyIndex /\ InitIdleQueue
  /\ outlet = {OutletRow(O1, M1), OutletRow(O2, M1), OutletRow(O3, M2)}
  /\ merchant = {MerchantRow(M1), MerchantRow(M2)}
  /\ paybillOrTill = {PaybillRow(O1), PaybillRow(O2), PaybillRow(O3)}
  /\ proc = ConfiguredProcess
  /\ userMerchantProfile = {}
  /\ now = 0
  /\ redis = Null
  /\ session = NoSession
  /\ lastOp = "init"

NextRebuild ==
  \/ \E v \in CashbackVersions : session = NoSession /\ ChangeCashback(CB1, v)
  \/ \E v \in ExclusiveVersions : session = NoSession /\ ChangeExclusive(EX1, v)
  \/ \E v \in LoyaltyVersions : session = NoSession /\ ChangeLoyalty(M2, v)
  \/ \E type \in {Null, Some("New"), Some("Vip"), Some("Gold")} :
       session = NoSession /\ customerType # {} /\ SetCustomerType(U1, M2, type)
  \/ \E id \in {CB1, CB2} : session = NoSession /\ RebuildCashback(id)
  \/ session = NoSession /\ RebuildExclusive(EX1)
  \/ \E m \in {M1, M2} : session = NoSession /\ RebuildLoyalty(m)
  \/ session = NoSession /\ RebuildProfiles(U1)
  \/ FirstPage(U1, MaxTakeInput)
  \/ Forget

SpecRebuild == InitRebuild /\ [][NextRebuild]_vars

IsNumber(x) == x[1] = "num"

\* The index is what the recompute of the source row yields.
CashbackInSync(id) == rebuildCashbackIndex(IndexTables, id) = IndexTables
ExclusiveInSync(id) == rebuildExclusiveIndex(IndexTables, id) = IndexTables

IndexRowOf(kind, sourceId) ==
  {oi \in offerIndex : SourceRef(oi, kind) = Some(sourceId)}

\* The source row differs from the base row in its two budget counters only.
OnlyBudgetsDiffer(cc) ==
  [cc EXCEPT !.netCashbackBudget = Num(2), !.usedCashbackBudget = Num(1)] = BaseCashback

\* C5: after a recompute that leaves the index as the recompute of the current
\* source, the budgetExhausted flag of a cashback or exclusive offer is true
\* exactly when NOT (used < net), so used = net is exhausted, used < net
\* is not and net = 0 is exhausted for every used >= 0; an otherwise eligible
\* cashback offer is resolved exactly when used < net (net = 100: used = 100
\* is excluded, used = 99 included).
C5_BudgetBoundary ==
  /\ (lastOp = "rebuildCashback" /\ ~IsNull(cashbackConfiguration[CB1]) /\ CashbackInSync(CB1)) =>
       LET cc == Val(cashbackConfiguration[CB1])
       IN (IsNumber(cc.netCashbackBudget) /\ IsNumber(cc.usedCashbackBudget)) =>
            /\ IndexRowOf("CASHBACK", CB1) # {}
            /\ \A oi \in IndexRowOf("CASHBACK", CB1) :
                 oi.budgetExhausted = ~(cc.usedCashbackBudget[2] < cc.netCashbackBudget[2])
  /\ (lastOp = "rebuildExclusive" /\ ~IsNull(ReadExclusive(exclusiveOffer, EX1))
        /\ ExclusiveInSync(EX1)) =>
       LET eo == Val(exclusiveOffer[EX1])
       IN (IsNumber(eo.netOfferBudget) /\ IsNumber(eo.usedOfferBudget)) =>
            /\ IndexRowOf("EXCLUSIVE", EX1) # {}
            /\ \A oi \in IndexRowOf("EXCLUSIVE", EX1) :
                 oi.budgetExhausted = ~(eo.usedOfferBudget[2] < eo.netOfferBudget[2])
  /\ (lastOp = "firstPage" /\ ~IsNull(cashbackConfiguration[CB1]) /\ CashbackInSync(CB1)) =>
       LET cc == Val(cashbackConfiguration[CB1])
       IN (OnlyBudgetsDiffer(cc) /\ IsNumber(cc.netCashbackBudget) /\ IsNumber(cc.usedCashbackBudget)) =>
            (O1 \in ResponseIds <=> cc.usedCashbackBudget[2] < cc.netCashbackBudget[2])

\* used = net = 100: the flag is set and the response leaves the outlet out.
C5_Witness ==
  /\ lastOp = "firstPage"
  /\ ~IsNull(cashbackConfiguration[CB1])
  /\ Val(cashbackConfiguration[CB1]).netCashbackBudget = Num(SeedBudget)
  /\ Val(cashbackConfiguration[CB1]).usedCashbackBudget = Num(SeedBudget)
  /\ CashbackInSync(CB1)
  /\ \E oi \in IndexRowOf("CASHBACK", CB1) : oi.budgetExhausted
  /\ O1 \notin ResponseIds

\* used = 99 of net = 100: the response has the outlet.
C5_WitnessIncluded ==
  /\ lastOp = "firstPage"
  /\ ~IsNull(cashbackConfiguration[CB1])
  /\ Val(cashbackConfiguration[CB1]).netCashbackBudget = Num(SeedBudget)
  /\ Val(cashbackConfiguration[CB1]).usedCashbackBudget = Num(SeedBudget - 1)
  /\ CashbackInSync(CB1)
  /\ O1 \in ResponseIds

\* The index tables but for the id counter.
Rows(t) == [t EXCEPT !.nextId = 0]

\* C6: each recompute operation is idempotent: from any prior index state and
\* with the source unchanged, a second run leaves the OfferIndex rows and the
\* child rows exactly as the first run left them.
C6_Idempotent ==
  /\ \A id \in {CB1, CB2} :
       LET once == rebuildCashbackIndex(IndexTables, id)
       IN Rows(rebuildCashbackIndex(once, id)) = Rows(once)
  /\ LET once == rebuildExclusiveIndex(IndexTables, EX1)
     IN Rows(rebuildExclusiveIndex(once, EX1)) = Rows(once)
  /\ \A m \in {M1, M2} :
       LET once == rebuildLoyaltyIndexByMerchant(IndexTables, m)
       IN Rows(rebuildLoyaltyIndexByMerchant(once, m)) = Rows(once)
  /\ LET once == RebuildProfilesResult(userMerchantProfile, customerType, U1)
     IN RebuildProfilesResult(once, customerType, U1) = once

\* A recompute has run over an index row that an earlier run left for another
\* state of the source, and running it again changes nothing.
C6_Witness ==
  /\ lastOp = "rebuildLoyalty"
  /\ loyaltyProgram[M2] # Some(BaseLoyalty)
  /\ \E oi \in IndexRowOf("LOYALTY", LP2) : oi.id = 1 /\ ~oi.isApprovedSnapshot
  /\ nextId = 2
  /\ rebuildLoyaltyIndexByMerchant(IndexTables, M2) = IndexTables

\* ------------------------------------------- responses through the cache

MaxTicks == 2             \* the clock advances at most MaxTicks times
TickSeconds == CACHE_TTL \div 2

\* Time passes.
Tick ==
  /\ now + TickSeconds <= MaxTicks * TickSeconds
  /\ now' = now + TickSeconds
  /\ lastOp' = "tick"
  /\ UNCHANGED <<srcVars, staticVars, idxVars, userMerchantProfile, queueVars, serveVars>>

\* A cashback configuration and the loyalty program of merchant M2; the user
\* is a Vip customer there.
ServeCashback == [BaseCashback EXCEPT !.merchantId = M2]
ServeCashbackVersions ==
  {ServeCashback,
   [ServeCashback EXCEPT !.isActive = FALSE],
   [ServeCashback EXCEPT !.Review = Some("Pending")],
   [ServeCashback EXCEPT !.deletedAt = Some(0)],
   [ServeCashback EXCEPT !.usedCashbackBudget = Num(2)]}
ServeLoyaltyVersions ==
  {BaseLoyalty,
   [BaseLoyalty EXCEPT !.isActive = FALSE],
   [BaseLoyalty EXCEPT !.pointsUsedInPeriod = Num(2)]}

InitServe ==
  /\ cashbackConfiguration = [id \in {CB1, CB2} |-> IF id = CB1 THEN Some(ServeCashback) ELSE Null]
  /\ exclusiveOffer = [id \in {EX1} |-> Null]
  /\ loyaltyProgram = [m \in {M1, M2} |-> IF m = M2 THEN Some(BaseLoyalty) ELSE Null]
  /\ customerType = {[userId |-> U1, merchantId |-> M2, type |-> "Vip"]}
  /\ userMerchantProfile = RebuildProfilesResult({}, customerType, U1)
  /\ InitEmptyIndex /\ InitIdleQueue
  /\ outlet = {OutletRow(O1, M2), OutletRow(O2, M2)}
  /\ merchant = {MerchantRow(M1), MerchantRow(M2)}
  /\ paybillOrTill = {PaybillRow(O1), PaybillRow(O2)}
  /\ proc = ConfiguredProcess
  /\ now = 0
  /\ redis = Some({})
  /\ session = NoSession
  /\ lastOp = "init"

NextServe ==
  \/ \E v \in ServeCashbackVersions : session = NoSession /\ ChangeCashback(CB1, v)
  \/ \E v \in ServeLoyaltyVersions : session = NoSession /\ ChangeLoyalty(M2, v)
  \/ session = NoSession /\ RebuildCashback(CB1)
  \/ session = NoSession /\ RebuildLoyalty(M2)
  \/ session = NoSession /\ Tick
  \/ FirstPage(U1, MaxTakeInput)
  \/ Forget

SpecServe == InitServe /\ [][NextServe]_vars

LiveRowFor(outletId) ==
  \E oi \in offerIndex :
    /\ oi.isActiveSnapshot /\ oi.isApprovedSnapshot
    /\ IsNull(oi.deletedAtSnapshot) /\ ~oi.budgetExhausted
    /\ \E oio \in offerIndexOutlet : oio.offerIndexId = oi.id /\ oio.outletId = outletId

\* C4: every outlet returned by offersResolver is mapped to at least one
\* OfferIndex row that is active, approved, not deleted and not exhausted.
C4_ReturnedOutletsLive ==
  lastOp \in {"firstPage", "cachedPage"} => \A o \in ResponseIds : LiveRowFor(o)

\* C4, amended: every outlet of a response that offersResolver computes from
\* the index is mapped to at least one OfferIndex row that is active,
\* approved, not deleted and not exhausted, and no offer failing one of the
\* four conditions is among the rows the query matches; a response served
\* from the cache is one stored less than CACHE_TTL seconds earlier.
C4_ComputedOutletsLive ==
  /\ lastOp = "firstPage" => \A o \in ResponseIds : LiveRowFor(o)
  /\ \A r \in CashbackOrExclusiveMatches(U1, Null, Null, now) \cup LoyaltyMatches(U1) :
       \E oi \in offerIndex :
         /\ oi.id = r.offerIndexId
         /\ oi.isActiveSnapshot /\ oi.isApprovedSnapshot
         /\ IsNull(oi.deletedAtSnapshot) /\ ~oi.budgetExhausted
  /\ lastOp = "cachedPage" =>
       \E e \in Val(redis) :
         /\ JsonParse(e.value) = Val(session.resp)
         /\ now < e.expiresAt /\ e.expiresAt <= now + CACHE_TTL

\* A response computed from the index returns an outlet while another offer
\* mapped to that outlet is exhausted.
C4_Witness ==
  /\ lastOp = "firstPage"
  /\ O1 \in ResponseIds
  /\ \E oi \in offerIndex :
       /\ oi.budgetExhausted
       /\ \E oio \in offerIndexOutlet : oio.offerIndexId = oi.id /\ oio.outletId = O1

\* ------------------------------------ recomputes, one database call a step

NumSlots == 2             \* invocations that may be in progress together

\* An invocation of a recompute function: where it stands (pc), what it
\* rebuilds (op, target), what it read (snap), the id its upsert returned, the
\* merchants a full rebuild has yet to visit (todo) and the id of the job it
\* runs for (<<>> when a caller invoked it).
IdleRun ==
  [pc |-> "idle", op |-> "none", target |-> <<>>, snap |-> Null, id |-> 0,
   todo |-> <<>>, job |-> <<>>]

StartedRun(op, target, job) ==
  [IdleRun EXCEPT !.pc = IF op = "full" THEN "merchants" ELSE "start",
                  !.op = op, !.target = target, !.job = job]

InProgress(r) == r.pc \in {"merchants", "start", "read", "upserted", "deleted"}

\* The first await of each recompute function: the read of the source.
ReadFor(op, target) ==
  IF op = "cashback" THEN ReadCashback(cashbackConfiguration, target)
  ELSE IF op = "exclusive" THEN ReadExclusive(exclusiveOffer, target)
  ELSE IF op = "profiles" THEN Some(ReadCustomerTypes(customerType, target))
  ELSE ReadLoyalty(loyaltyProgram, outlet, target)

\* The function returns; a full rebuild goes on to its next merchant.
AfterRebuild(r) ==
  IF r.op = "full" /\ r.todo # <<>>
  THEN [r EXCEPT !.pc = "start", !.target = Head(r.todo), !.todo = Tail(r.todo),
                 !.snap = Null, !.id = 0]
  ELSE [r EXCEPT !.pc = "done"]

\* FULL_REBUILD: prisma.merchant.findMany({select: {id: true}}).
RunFindMerchants(w) ==
  /\ runs[w].pc = "merchants"
  /\ LET r == [runs[w] EXCEPT !.todo = SetToSeq({m.id : m \in merchant})]
     IN runs' = [runs EXCEPT ![w] = AfterRebuild(r)]
  /\ lastOp' = "findMerchants"
  /\ UNCHANGED <<srcVars, staticVars, idxVars, userMerchantProfile, jobs, nextJobId,
                 enqueued, offerIndexRebuildLog, now, serveVars>>

RunRead(w) ==
  /\ runs[w].pc = "start"
  /\ LET r == runs[w]
         snap == ReadFor(r.op, r.target)
     IN runs' = [runs EXCEPT ![w] =
                   IF IsNull(snap) THEN AfterRebuild(r)
                   ELSE [r EXCEPT !.pc = "read", !.snap = snap]]
  /\ lastOp' = "read"
  /\ UNCHANGED <<srcVars, staticVars, idxVars, userMerchantProfile, jobs, nextJobId,
                 enqueued, offerIndexRebuildLog, now, serveVars>>

\* prisma.offerIndex.upsert, on its own.
RunUpsert(w) ==
  /\ runs[w].pc = "read" /\ runs[w].op # "profiles"
  /\ LET up == Upsert(IndexTables, Val(runs[w].snap))
     IN /\ SetIndexTables(up.tables)
        /\ runs' = [runs EXCEPT ![w].pc = "upserted", ![w].id = up.id]
  /\ lastOp' = "upsert"
  /\ UNCHANGED <<srcVars, staticVars, userMerchantProfile, jobs, nextJobId,
                 enqueued, offerIndexRebuildLog, now, serveVars>>

\* prisma.$transaction([...]) of the child rows; a failed transaction throws.
RunReplace(w) ==
  /\ runs[w].pc = "upserted"
  /\ LET r == runs[w]
     IN /\ SetIndexTables(ReplaceChildren(IndexTables, r.id, Val(r.snap)))
        /\ runs' = [runs EXCEPT ![w] =
                      IF ReplaceChildrenFails(IndexTables, r.id, Val(r.snap))
                      THEN [r EXCEPT !.pc = "failed"]
                      ELSE AfterRebuild(r)]
  /\ lastOp' = "replaceChildren"
  /\ UNCHANGED <<srcVars, staticVars, userMerchantProfile, jobs, nextJobId,
                 enqueued, offerIndexRebuildLog, now, serveVars>>

\* prisma.userMerchantProfile.deleteMany, then the return when no rows were read.
RunDeleteProfiles(w) ==
  /\ runs[w].pc = "read" /\ runs[w].op = "profiles"
  /\ userMerchantProfile' = DeleteProfiles(userMerchantProfile, runs[w].target)
  /\ runs' = [runs EXCEPT ![w].pc = IF Val(runs[w].snap) = {} THEN "done" ELSE "deleted"]
  /\ lastOp' = "deleteProfiles"
  /\ UNCHANGED <<srcVars, staticVars, idxVars, jobs, nextJobId, enqueued,
                 offerIndexRebuildLog, now, serveVars>>

\* prisma.userMerchantProfile.createMany of the rows that were read.
RunCreateProfiles(w) ==
  /\ runs[w].pc = "deleted"
  /\ LET r == runs[w]
     IN /\ userMerchantProfile' = CreateProfiles(userMerchantProfile, r.target, Val(r.snap))
        /\ runs' = [runs EXCEPT ![w].pc =
                      IF CreateProfilesFails(userMerchantProfile, r.target, Val(r.snap))
                      THEN "failed" ELSE "done"]
  /\ lastOp' = "createProfiles"
  /\ UNCHANGED <<srcVars, staticVars, idxVars, jobs, nextJobId, enqueued,
                 offerIndexRebuildLog, now, serveVars>>

\* A caller invokes a recompute function.
Invoke(w, op, target) ==
  /\ runs[w].pc = "idle"
  /\ runs' = [runs EXCEPT ![w] = StartedRun(op, target, <<>>)]
  /\ lastOp' = "invoke"
  /\ UNCHANGED <<srcVars, staticVars, idxVars, userMerchantProfile, jobs, nextJobId,
                 enqueued, offerIndexRebuildLog, now, serveVars>>

\* The source rows the racing invocations read: an inactive configuration with
\* two outlets that becomes an active one with one outlet, an inactive program
\* with a tier for everyone that becomes an active one with tiers for
\* customers, and the user's customer type.
RaceCashbackVersions ==
  {[BaseCashback EXCEPT !.isActive = FALSE, !.Outlets = {O1, O2}], BaseCashback}
RaceLoyaltyVersions ==
  {[BaseLoyalty EXCEPT !.isActive = FALSE,
                       !.LoyaltyTiers = <<LoyaltyTier(TRUE, Null, Some("Approved"), Null)>>],
   BaseLoyalty}

InitRace ==
  /\ \E k \in {"cashback", "loyalty", "customerType"} :
       /\ cashbackConfiguration =
            [id \in {CB1, CB2} |->
               IF k = "cashback" /\ id = CB1
               THEN Some([BaseCashback EXCEPT !.isActive = FALSE, !.Outlets = {O1, O2}])
               ELSE Null]
       /\ loyaltyProgram =
            [m \in {M1, M2} |->
               IF k = "loyalty" /\ m = M2
               THEN Some([BaseLoyalty EXCEPT
                            !.isActive = FALSE,
                            !.LoyaltyTiers = <<LoyaltyTier(TRUE, Null, Some("Approved"), Null)>>])
               ELSE Null]
       /\ customerType = IF k = "customerType"
                           THEN {[userId |-> U1, merchantId |-> M2, type |-> "New"]}
                           ELSE {}
  /\ exclusiveOffer = [id \in {EX1} |-> Null]
  /\ InitEmptyIndex
  /\ jobs = <<>> /\ nextJobId = 1 /\ enqueued = Null /\ offerIndexRebuildLog = <<>>
  /\ runs = [w \in 1..NumSlots |-> IdleRun]
  /\ outlet = {OutletRow(O1, M1), OutletRow(O2, M1), OutletRow(O3, M2)}
  /\ merchant = {MerchantRow(M1), MerchantRow(M2)}
  /\ paybillOrTill = {PaybillRow(O1), PaybillRow(O2), PaybillRow(O3)}
  /\ proc = ConfiguredProcess
  /\ userMerchantProfile = {}
  /\ now = 0
  /\ redis = Null
  /\ session = NoSession
  /\ lastOp = "init"

NextRace ==
  \/ \E v \in RaceCashbackVersions : session = NoSession /\ ChangeCashback(CB1, v)
  \/ \E v \in RaceLoyaltyVersions : session = NoSession /\ ChangeLoyalty(M2, v)
  \/ \E type \in {Some("New"), Some("Vip")} :
       session = NoSession /\ customerType # {} /\ SetCustomerType(U1, M2, type)
  \/ \E w \in 1..NumSlots :
       session = NoSession /\ ~IsNull(cashbackConfiguration[CB1]) /\ Invoke(w, "cashback", CB1)
  \/ \E w \in 1..NumSlots :
       session = NoSession /\ ~IsNull(loyaltyProgram[M2]) /\ Invoke(w, "loyalty", M2)
  \/ \E w \in 1..NumSlots :
       session = NoSession /\ customerType # {} /\ Invoke(w, "profiles", U1)
  \/ \E w \in 1..NumSlots : session = NoSession /\ RunRead(w)
  \/ \E w \in 1..NumSlots : session = NoSession /\ RunUpsert(w)
  \/ \E w \in 1..NumSlots : session = NoSession /\ RunReplace(w)
  \/ \E w \in 1..NumSlots : session = NoSession /\ RunDeleteProfiles(w)
  \/ \E w \in 1..NumSlots : session = NoSession /\ RunCreateProfiles(w)
  \/ FirstPage(U1, MaxTakeInput)
  \/ Forget

SpecRace == InitRace /\ [][NextRace]_vars

\* The outlets a user without a profile is entitled to when the index holds
\* the whole derivation of one state of the source.
GrantedByCashback(cc) ==
  IF /\ cc.isActive /\ isApproved(cc.Review) /\ IsNull(cc.deletedAt)
     /\ ~cashbackBudgetExhausted(cc.netCashbackBudget, cc.usedCashbackBudget)
     /\ "All" \in Range(cc.eligibleCustomerTypes)
  THEN cc.Outlets ELSE {}
GrantedByLoyalty(lp, merchantId) ==
  IF /\ lp.isActive /\ isApproved(lp.Review)
     /\ \E r \in lp.MerchantLoyaltyRewards : r.isActive /\ isApproved(r.Review)
     /\ ~pointsLimitExhausted(lp.pointsIssuedLimit, lp.pointsUsedInPeriod)
     /\ \E i \in 1..Len(lp.LoyaltyTiers) :
          LET t == lp.LoyaltyTiers[i]
          IN t.isActive /\ IsNull(t.deletedAt) /\ isApproved(t.Review)
             /\ NumberValue(customerTypeRank(t.minCustomerType)) = 0
  THEN {o.id : o \in {x \in outlet : x.merchantId = merchantId}} ELSE {}

\* C7: a reader concurrent with a recompute sees the index of one state of the
\* source, the parent row and its child rows together: the response is what
\* the old state grants, what the new state grants, or empty before the first
\* recompute, never the new parent row read with the old child rows.
C7_ReaderSeesOneSourceState ==
  lastOp = "firstPage" =>
    \/ ResponseIds = {}
    \/ \E v \in RaceCashbackVersions : ResponseIds = GrantedByCashback(v)
    \/ \E v \in RaceLoyaltyVersions : ResponseIds = GrantedByLoyalty(v, M2)

NoRunInProgress == \A w \in 1..NumSlots : ~InProgress(runs[w])

ReadTheFinalSource(op, target) ==
  \E w \in 1..NumSlots :
    /\ runs[w].pc = "done" /\ runs[w].op = op /\ runs[w].target = target
    /\ runs[w].snap = ReadFor(op, target)

\* C8: once the concurrent invocations of a recompute operation for an entity
\* have all finished, one of them having read the final state of the source,
\* the index rows of the entity are the derivation of that final state.
C8_ConcurrentRunsConverge ==
  NoRunInProgress =>
    /\ ReadTheFinalSource("cashback", CB1) => CashbackInSync(CB1)
    /\ ReadTheFinalSource("loyalty", M2) =>
         rebuildLoyaltyIndexByMerchant(IndexTables, M2) = IndexTables
    /\ ReadTheFinalSource("profiles", U1) =>
         RebuildProfilesResult(userMerchantProfile, customerType, U1) = userMerchantProfile

\* ------------------------------------------------- queue.ts: the job queue

\* The two 16-bit halves of the offset basis 2166136261 and of the prime
\* 16777619 of hashish.
FNV_OFFSET_HI == 33052
FNV_OFFSET_LO == 40389
FNV_PRIME_HI == 256
FNV_PRIME_LO == 403

\* a ^ b on the lowest n bits.
RECURSIVE BitXor(_, _, _)
BitXor(a, b, n) ==
  IF n = 0 THEN 0
  ELSE ((a + b) % 2) + 2 * BitXor(a \div 2, b \div 2, n - 1)

\* h ^= c; h = Math.imul(h, 16777619), on h as <<high half, low half>> of its
\* 32 bits.
HashStep(h, c) ==
  LET lo == BitXor(h[2], c, 16)
      p == lo * FNV_PRIME_LO
  IN <<(h[1] * FNV_PRIME_LO + lo * FNV_PRIME_HI + (p \div 65536)) % 65536, p % 65536>>

RECURSIVE HashLoop(_, _)
HashLoop(h, input) ==
  IF input = <<>> THEN h ELSE HashLoop(HashStep(h, CharCode(Head(input))), Tail(input))

HexDigits == Digits \o <<"a", "b", "c", "d", "e", "f">>

\* n.toString(16), and the same over at least k digits.
RECURSIVE ToHex(_, _)
ToHex(n, k) ==
  IF n < 16 /\ k <= 1 THEN <<HexDigits[n + 1]>>
  ELSE ToHex(n \div 16, k - 1) \o <<HexDigits[(n % 16) + 1]>>

\* hashish(input): (h >>> 0).toString(16)
hashish(input) ==
  LET h == HashLoop(<<FNV_OFFSET_HI, FNV_OFFSET_LO>>, input)
  IN IF h[1] = 0 THEN ToHex(h[2], 1) ELSE ToHex(h[1], 1) \o ToHex(h[2], 4)

\* An OfferIndexJob: its type and the one id (or reason) it carries.
Job(type, target) == [type |-> type, target |-> target]

CASHBACK_PREFIX == <<"c", "a", "s", "h", "b", "a", "c", "k", ":">>
EXCLUSIVE_PREFIX == <<"e", "x", "c", "l", "u", "s", "i", "v", "e", ":">>
LOYALTY_PREFIX == <<"l", "o", "y", "a", "l", "t", "y", ":">>
USERCT_PREFIX == <<"u", "s", "e", "r", "c", "t", ":">>
FULL_PREFIX == <<"f", "u", "l", "l", ":">>

\* jobIdFor(job)
jobIdFor(job) ==
  CASE job.type = "CASHBACK_CHANGED" -> CASHBACK_PREFIX \o job.target
    [] job.type = "EXCLUSIVE_CHANGED" -> EXCLUSIVE_PREFIX \o job.target
    [] job.type = "LOYALTY_CHANGED" -> LOYALTY_PREFIX \o job.target
    [] job.type = "USER_CUSTOMER_TYPES_CHANGED" -> USERCT_PREFIX \o job.target
    [] job.type = "FULL_REBUILD" -> FULL_PREFIX \o hashish(job.target)

QueueAddAlways(q, name, data, jobId) ==
  Append(q, [id |-> jobId, name |-> name, data |-> data, state |-> "waiting",
             attemptsMade |-> 0])

\* queue.add(name, data, {jobId}): nothing is added while the queue holds a
\* job with that id, whatever its state.
QueueAdd(q, name, data, jobId) ==
  IF \E i \in 1..Len(q) : q[i].id = jobId THEN q
  ELSE Append(q, [id |-> jobId, name |-> name, data |-> data, state |-> "waiting",
                  attemptsMade |-> 0])

enqueueOfferIndexJobUnchecked(q, job) == QueueAdd(q, job.type, job, jobIdFor(job))

\* enqueueOfferIndexJob(job): the jobs of the queue after it; nothing happens
\* when there is no queue.
enqueueOfferIndexJob(q, job) ==
  IF IsNull(offerIndexQueue) THEN q
  ELSE QueueAdd(q, job.type, job, jobIdFor(job))

EnqueueRecord(q, job) ==
  Some([job |-> job, jobId |-> jobIdFor(job),
        added |-> enqueueOfferIndexJob(q, job) # q])

\* ---------------------------------------------------- queue.ts: the worker

REMOVE_ON_COMPLETE == 200

\* handleOfferIndexJob(prisma, job): the recompute call the job's type selects.
handleOfferIndexJob(job) ==
  LET op == CASE job.data.type = "CASHBACK_CHANGED" -> "cashback"
              [] job.data.type = "EXCLUSIVE_CHANGED" -> "exclusive"
              [] job.data.type = "LOYALTY_CHANGED" -> "loyalty"
              [] job.data.type = "USER_CUSTOMER_TYPES_CHANGED" -> "profiles"
              [] job.data.type = "FULL_REBUILD" -> "full"
  IN StartedRun(op, IF op = "full" THEN <<>> ELSE job.data.target, job.id)

Pending(q) == {i \in 1..Len(q) : q[i].state = "waiting"}
Completed(q) == {i \in 1..Len(q) : q[i].state = "completed"}

\* The first free slot of the worker takes the oldest waiting job.
WorkerTake(w) ==
  /\ ~IsNull(proc.worker)
  /\ runs[w].pc = "idle"
  /\ \A k \in 1..(w - 1) : runs[k].pc # "idle"
  /\ Pending(jobs) # {}
  /\ LET i == CHOOSE x \in Pending(jobs) : \A y \in Pending(jobs) : x <= y
     IN /\ jobs' = [jobs EXCEPT ![i].state = "active", ![i].attemptsMade = @ + 1]
        /\ runs' = [runs EXCEPT ![w] = handleOfferIndexJob(jobs[i])]
  /\ lastOp' = "take"
  /\ UNCHANGED <<srcVars, staticVars, idxVars, userMerchantProfile, nextJobId, enqueued,
                 offerIndexRebuildLog, now, serveVars>>

\* removeOnComplete: 200 keeps the latest 200 completed jobs.
KeepCompleted(q) ==
  IF Cardinality(Completed(q)) <= REMOVE_ON_COMPLETE THEN q
  ELSE LET oldest == CHOOSE x \in Completed(q) : \A y \in Completed(q) : x <= y
       IN SubSeq(q, 1, oldest - 1) \o SubSeq(q, oldest + 1, Len(q))

\* The handler returned: the job is completed, and stays in the queue.
WorkerComplete(w) ==
  /\ runs[w].pc = "done" /\ runs[w].job # <<>>
  /\ \E i \in 1..Len(jobs) :
       /\ jobs[i].id = runs[w].job
       /\ jobs' = KeepCompleted([jobs EXCEPT ![i].state = "completed"])
  /\ runs' = [runs EXCEPT ![w] = IdleRun]
  /\ lastOp' = "complete"
  /\ UNCHANGED <<srcVars, staticVars, idxVars, userMerchantProfile, nextJobId, enqueued,
                 offerIndexRebuildLog, now, serveVars>>

MaxJobs == 2              \* the queue holds at most MaxJobs jobs

\* A write path changes the cashback configuration and enqueues its change job.
WriteCashback(id, v) ==
  LET job == Job("CASHBACK_CHANGED", id)
  IN /\ ~IsNull(cashbackConfiguration[id])
     /\ cashbackConfiguration[id] # Some(v)
     /\ Len(enqueueOfferIndexJob(jobs, job)) <= MaxJobs
     /\ cashbackConfiguration' = [cashbackConfiguration EXCEPT ![id] = Some(v)]
     /\ jobs' = enqueueOfferIndexJob(jobs, job)
     /\ enqueued' = EnqueueRecord(jobs, job)
     /\ lastOp' = "writeCashback"
     /\ UNCHANGED <<exclusiveOffer, loyaltyProgram, customerType, staticVars, idxVars,
                    userMerchantProfile, nextJobId, runs, offerIndexRebuildLog, now, serveVars>>

\* Some caller enqueues a job.
Enqueue(job) ==
  /\ Len(enqueueOfferIndexJob(jobs, job)) <= MaxJobs
  /\ jobs' = enqueueOfferIndexJob(jobs, job)
  /\ enqueued' = EnqueueRecord(jobs, job)
  /\ lastOp' = "enqueue"
  /\ UNCHANGED <<srcVars, staticVars, idxVars, userMerchantProfile, nextJobId, runs,
                 offerIndexRebuildLog, now, serveVars>>

\* startBackstopCron: the timer fires and adds a full rebuild; the queue gives
\* a job added without a jobId the next number of its counter.
CronBackstop == <<"c", "r", "o", "n", "-", "b", "a", "c", "k", "s", "t", "o", "p">>

startBackstopCron ==
  /\ proc.timers > 0
  /\ Len(jobs) < MaxJobs
  /\ jobs' = QueueAdd(jobs, "full-rebuild", Job("FULL_REBUILD", CronBackstop),
                      NumberToString(nextJobId))
  /\ nextJobId' = nextJobId + 1
  /\ lastOp' = "backstop"
  /\ UNCHANGED <<srcVars, staticVars, idxVars, userMerchantProfile, enqueued, runs,
                 offerIndexRebuildLog, now, serveVars>>

\* Two reasons of a full rebuild.
Altarage == <<"a", "l", "t", "a", "r", "a", "g", "e">>
Zinke == <<"z", "i", "n", "k", "e">>

OtherJobs ==
  {Job("CASHBACK_CHANGED", CB2), Job("EXCLUSIVE_CHANGED", EX1), Job("LOYALTY_CHANGED", M2),
   Job("USER_CUSTOMER_TYPES_CHANGED", U1),
   Job("FULL_REBUILD", Altarage), Job("FULL_REBUILD", Zinke)}

\* The index holds the derivation of the cashback configuration; the loyalty
\* program and the customer type are not indexed yet; the queue is empty.
InitQueue ==
  /\ cashbackConfiguration =
       [id \in {CB1, CB2} |->
          IF id = CB1 THEN Some([BaseCashback EXCEPT !.isActive = FALSE, !.Outlets = {O1, O2}])
          ELSE Null]
  /\ exclusiveOffer = [id \in {EX1} |-> Null]
  /\ loyaltyProgram = [m \in {M1, M2} |-> IF m = M2 THEN Some(BaseLoyalty) ELSE Null]
  /\ customerType = {[userId |-> U1, merchantId |-> M2, type |-> "New"]}
  /\ LET t == RebuildResult([offerIndex |-> {}, offerIndexCustomerType |-> {},
                             offerIndexOutlet |-> {}, loyaltyTierIndex |-> {}, nextId |-> 1],
                            ReadCashback(cashbackConfiguration, CB1))
     IN /\ offerIndex = t.offerIndex
        /\ offerIndexCustomerType = t.offerIndexCustomerType
        /\ offerIndexOutlet = t.offerIndexOutlet
        /\ loyaltyTierIndex = t.loyaltyTierIndex
        /\ nextId = t.nextId
  /\ jobs = <<>> /\ nextJobId = 1 /\ enqueued = Null /\ offerIndexRebuildLog = <<>>
  /\ runs = [w \in 1..NumSlots |-> IdleRun]
  /\ outlet = {OutletRow(O1, M1), OutletRow(O2, M1), OutletRow(O3, M2)}
  /\ merchant = {MerchantRow(M1), MerchantRow(M2)}
  /\ paybillOrTill = {PaybillRow(O1), PaybillRow(O2), PaybillRow(O3)}
  /\ proc = ConfiguredProcess
  /\ userMerchantProfile = {}
  /\ now = 0
  /\ redis = Null
  /\ session = NoSession
  /\ lastOp = "init"

NextQueue ==
  \/ \E v \in RaceCashbackVersions : WriteCashback(CB1, v)
  \/ \E job \in OtherJobs : Enqueue(job)
  \/ startBackstopCron
  \/ \E w \in 1..NumSlots : WorkerTake(w)
  \/ \E w \in 1..NumSlots : RunFindMerchants(w)
  \/ \E w \in 1..NumSlots : RunRead(w)
  \/ \E w \in 1..NumSlots : RunUpsert(w)
  \/ \E w \in 1..NumSlots : RunReplace(w)
  \/ \E w \in 1..NumSlots : RunDeleteProfiles(w)
  \/ \E w \in 1..NumSlots : RunCreateProfiles(w)
  \/ \E w \in 1..NumSlots : WorkerComplete(w)

SpecQueue == InitQueue /\ [][NextQueue]_vars

JobsWithKey(jobId) == {i \in 1..Len(jobs) : jobs[i].id = jobId}

KeysAreUnique == \A i, j \in 1..Len(jobs) : i # j => jobs[i].id # jobs[j].id

\* Right after a call of enqueueOfferIndexJob the queue holds a job with the
\* call's key, and the call added nothing exactly when it found one.
EnqueueIsNoOpOnKey ==
  (lastOp \in {"enqueue", "writeCashback"}) =>
    /\ JobsWithKey(Val(enqueued).jobId) # {}
    /\ Val(enqueued).jobId = jobIdFor(Val(enqueued).job)

\* C9: the queue holds at most one job per key, an enqueue under a key the
\* queue holds adds nothing, and the job that holds the key of an enqueued job
\* is a job of the same variant for the same target id.
C9_OneJobPerKey ==
  /\ KeysAreUnique
  /\ EnqueueIsNoOpOnKey
  /\ (lastOp \in {"enqueue", "writeCashback"}) =>
       \A i \in JobsWithKey(Val(enqueued).jobId) : jobs[i].data = Val(enqueued).job

\* C9, amended: the queue holds at most one job per key, an enqueue under a
\* key the queue holds adds nothing, and the job that holds the key of an
\* enqueued job is a job of the same variant, for the same target id unless
\* the variant is FULL_REBUILD: two reasons with the same 32-bit hash share
\* the key.
C9_OneJobPerKeySameVariant ==
  /\ KeysAreUnique
  /\ EnqueueIsNoOpOnKey
  /\ (lastOp \in {"enqueue", "writeCashback"}) =>
       \A i \in JobsWithKey(Val(enqueued).jobId) :
         /\ jobs[i].data.type = Val(enqueued).job.type
         /\ jobs[i].data.type # "FULL_REBUILD" => jobs[i].data = Val(enqueued).job

\* A change job is enqueued while the job of an earlier change of the same
\* entity is waiting: nothing is added.
C9_Witness ==
  /\ lastOp = "writeCashback"
  /\ ~Val(enqueued).added
  /\ \E i \in JobsWithKey(Val(enqueued).jobId) :
       jobs[i].state = "waiting" /\ jobs[i].data = Val(enqueued).job
  /\ Len(jobs) = 1

QueueIdle == \A i \in 1..Len(jobs) : jobs[i].state \notin {"waiting", "active"}

\* C10: every change of the cashback configuration enqueues its change job,
\* so once the worker has nothing left to do the index rows of the
\* configuration are the derivation of its latest state.
C10_IdleQueueMeansFresh == QueueIdle => CashbackInSync(CB1)

\* ------------------------------------------- the backstop and lost changes

\* The index holds the derivation of the source rows of the cashback
\* configuration, of the loyalty program and of the user's customer type; the
\* queue is empty.
InitBackstop ==
  /\ cashbackConfiguration =
       [id \in {CB1, CB2} |->
          IF id = CB1 THEN Some([BaseCashback EXCEPT !.isActive = FALSE, !.Outlets = {O1, O2}])
          ELSE Null]
  /\ exclusiveOffer = [id \in {EX1} |-> Null]
  /\ loyaltyProgram =
       [m \in {M1, M2} |->
          IF m = M2
          THEN Some([BaseLoyalty EXCEPT
                       !.isActive = FALSE,
                       !.LoyaltyTiers = <<LoyaltyTier(TRUE, Null, Some("Approved"), Null)>>])
          ELSE Null]
  /\ customerType = {[userId |-> U1, merchantId |-> M2, type |-> "New"]}
  /\ outlet = {OutletRow(O1, M1), OutletRow(O2, M1), OutletRow(O3, M2)}
  /\ merchant = {MerchantRow(M1), MerchantRow(M2)}
  /\ paybillOrTill = {PaybillRow(O1), PaybillRow(O2), PaybillRow(O3)}
  /\ proc = ConfiguredProcess
  /\ LET empty == [offerIndex |-> {}, offerIndexCustomerType |-> {},
                   offerIndexOutlet |-> {}, loyaltyTierIndex |-> {}, nextId |-> 1]
         t == RebuildResult(RebuildResult(empty, ReadCashback(cashbackConfiguration, CB1)),
                            ReadLoyalty(loyaltyProgram, outlet, M2))
     IN /\ offerIndex = t.offerIndex
        /\ offerIndexCustomerType = t.offerIndexCustomerType
        /\ offerIndexOutlet = t.offerIndexOutlet
        /\ loyaltyTierIndex = t.loyaltyTierIndex
        /\ nextId = t.nextId
  /\ userMerchantProfile = RebuildProfilesResult({}, customerType, U1)
  /\ jobs = <<>> /\ nextJobId = 1 /\ enqueued = Null /\ offerIndexRebuildLog = <<>>
  /\ runs = [w \in 1..NumSlots |-> IdleRun]
  /\ now = 0
  /\ redis = Null
  /\ session = NoSession
  /\ lastOp = "init"

\* A source row changes and its change job is lost: no job reaches the queue.
\* The changes happen before the backstop timer fires.
NextBackstop ==
  \/ \E v \in RaceCashbackVersions : jobs = <<>> /\ ChangeCashback(CB1, v)
  \/ \E v \in RaceLoyaltyVersions : jobs = <<>> /\ ChangeLoyalty(M2, v)
  \/ \E type \in {Some("New"), Some("Vip")} : jobs = <<>> /\ SetCustomerType(U1, M2, type)
  \/ startBackstopCron
  \/ \E w \in 1..NumSlots : WorkerTake(w)
  \/ \E w \in 1..NumSlots : RunFindMerchants(w)
  \/ \E w \in 1..NumSlots : RunRead(w)
  \/ \E w \in 1..NumSlots : RunUpsert(w)
  \/ \E w \in 1..NumSlots : RunReplace(w)
  \/ \E w \in 1..NumSlots : WorkerComplete(w)

SpecBackstop == InitBackstop /\ [][NextBackstop]_vars

LoyaltyInSync(merchantId) == rebuildLoyaltyIndexByMerchant(IndexTables, merchantId) = IndexTables
ProfilesInSync(userId) ==
  RebuildProfilesResult(userMerchantProfile, customerType, userId) = userMerchantProfile

\* A full rebuild that the backstop enqueued has completed and none is left
\* waiting or running.
BackstopCompleted ==
  /\ jobs # <<>>
  /\ \A i \in 1..Len(jobs) : jobs[i].state = "completed" /\ jobs[i].data.type = "FULL_REBUILD"

\* C11: when the change job of an entity (cashback configuration, loyalty
\* program, customer types of a user) was lost, then once the next
\* FULL_REBUILD of the backstop has completed the index rows of the entity
\* are the derivation of its current source state.
C11_BackstopReconciles ==
  BackstopCompleted =>
    /\ CashbackInSync(CB1)
    /\ LoyaltyInSync(M2)
    /\ ProfilesInSync(U1)

\* What the full rebuild does reconcile: the loyalty programs.
C11_LoyaltyReconciled == BackstopCompleted => LoyaltyInSync(M2)

\* ------------------------------------------------ failed attempts and retries

ATTEMPTS == 5
REMOVE_ON_FAIL == 500

\* entityIdFor(job)
entityIdFor(job) == job.target

\* An await of the handler rejects (the database refuses the statement, or
\* the $transaction rolls back): the statement changes nothing and the
\* handler throws.
RunThrows(w) ==
  /\ InProgress(runs[w])
  /\ runs' = [runs EXCEPT ![w].pc = "failed"]
  /\ lastOp' = "throw"
  /\ UNCHANGED <<srcVars, staticVars, idxVars, userMerchantProfile, jobs, nextJobId,
                 enqueued, offerIndexRebuildLog, now, serveVars>>

AfterFailureRetriesOnceMore(job) ==
  [job EXCEPT !.state = IF job.attemptsMade <= ATTEMPTS THEN "delayed" ELSE "failed"]

\* attempts: 5, backoff: the job whose attempt failed waits for its next
\* attempt while it has attempts left, and is failed for good otherwise.
AfterFailure(job) ==
  [job EXCEPT !.state = IF job.attemptsMade < ATTEMPTS THEN "delayed" ELSE "failed"]

Failed(q) == {i \in 1..Len(q) : q[i].state = "failed"}

\* removeOnFail: 500 keeps the latest 500 failed jobs.
KeepFailed(q) ==
  IF Cardinality(Failed(q)) <= REMOVE_ON_FAIL THEN q
  ELSE LET oldest == CHOOSE x \in Failed(q) : \A y \in Failed(q) : x <= y
       IN SubSeq(q, 1, oldest - 1) \o SubSeq(q, oldest + 1, Len(q))

FailedLogRowCountsRetries(job) ==
  [jobType |-> "BULLMQ", entityType |-> job.data.type, entityId |-> entityIdFor(job.data),
   status |-> "FAILED", attempts |-> job.attemptsMade - 1]

\* The row worker.on("failed") writes.
FailedLogRow(job) ==
  [jobType |-> "BULLMQ", entityType |-> job.data.type, entityId |-> entityIdFor(job.data),
   status |-> "FAILED", attempts |-> job.attemptsMade]

\* prismaClient.offerIndexRebuildLog.create({data}) inside try/catch: the row
\* is appended, or the call rejects, the rejection is caught and nothing is
\* written.
LogCreate(log, row) == {Append(log, row), log}

\* The handler threw: the attempt has failed, the job is delayed for a retry
\* or failed for good, and worker.on("failed") writes its log row if it can.
WorkerFail(w) ==
  /\ runs[w].pc = "failed" /\ runs[w].job # <<>>
  /\ \E i \in 1..Len(jobs) :
       /\ jobs[i].id = runs[w].job
       /\ jobs' = KeepFailed([jobs EXCEPT ![i] = AfterFailure(jobs[i])])
       /\ offerIndexRebuildLog' \in LogCreate(offerIndexRebuildLog, FailedLogRow(jobs[i]))
  /\ runs' = [runs EXCEPT ![w] = IdleRun]
  /\ lastOp' = "fail"
  /\ UNCHANGED <<srcVars, staticVars, idxVars, userMerchantProfile, nextJobId, enqueued,
                 now, serveVars>>

\* The backoff delay of a delayed job has passed: it waits for the worker again.
BackoffElapsed(i) ==
  /\ i \in 1..Len(jobs)
  /\ jobs[i].state = "delayed"
  /\ jobs' = [jobs EXCEPT ![i].state = "waiting"]
  /\ lastOp' = "backoffElapsed"
  /\ UNCHANGED <<srcVars, staticVars, idxVars, userMerchantProfile, nextJobId, enqueued,
                 runs, offerIndexRebuildLog, now, serveVars>>

Terminal(job) == job.state \in {"completed", "failed"}

RetryJobs == {Job("LOYALTY_CHANGED", M2), Job("USER_CUSTOMER_TYPES_CHANGED", U1)}

\* What the worker and the queue do on their own.
WorkerStep ==
  \/ \E w \in 1..NumSlots : WorkerTake(w)
  \/ \E w \in 1..NumSlots : RunRead(w)
  \/ \E w \in 1..NumSlots : RunUpsert(w)
  \/ \E w \in 1..NumSlots : RunReplace(w)
  \/ \E w \in 1..NumSlots : RunDeleteProfiles(w)
  \/ \E w \in 1..NumSlots : RunCreateProfiles(w)
  \/ \E w \in 1..NumSlots : RunThrows(w)
  \/ \E w \in 1..NumSlots : WorkerComplete(w)
  \/ \E w \in 1..NumSlots : WorkerFail(w)
  \/ \E i \in 1..MaxJobs : BackoffElapsed(i)

\* Jobs arrive one after the other: the next one when the ones before it are
\* completed or failed for good.
NextRetry ==
  \/ \E job \in RetryJobs : (\A i \in 1..Len(jobs) : Terminal(jobs[i])) /\ Enqueue(job)
  \/ \E w \in 1..NumSlots : WorkerTake(w)
  \/ \E w \in 1..NumSlots : RunRead(w)
  \/ \E w \in 1..NumSlots : RunUpsert(w)
  \/ \E w \in 1..NumSlots : RunReplace(w)
  \/ \E w \in 1..NumSlots : RunDeleteProfiles(w)
  \/ \E w \in 1..NumSlots : RunCreateProfiles(w)
  \/ \E w \in 1..NumSlots : RunThrows(w)
  \/ \E w \in 1..NumSlots : WorkerComplete(w)
  \/ \E w \in 1..NumSlots : WorkerFail(w)
  \/ \E i \in 1..MaxJobs : BackoffElapsed(i)

\* The worker runs while it has something to do: a waiting job is taken, a
\* started statement returns or rejects, a delay passes.
SpecRetry == InitQueue /\ [][NextRetry]_vars /\ WF_vars(WorkerStep)

AttemptsBounded ==
  \A i \in 1..Len(jobs) :
    /\ jobs[i].attemptsMade <= ATTEMPTS
    /\ jobs[i].state = "failed" => jobs[i].attemptsMade = ATTEMPTS
    /\ jobs[i].state = "delayed" => jobs[i].attemptsMade \in 1..(ATTEMPTS - 1)

\* A retry starts only after the failure of the attempt before it: a job that
\* goes to a worker slot was waiting, and no other slot runs it.
RetryAfterFailure ==
  \A i \in 1..Len(jobs) :
    Cardinality({w \in 1..NumSlots : runs[w].job = jobs[i].id}) =
      IF jobs[i].state = "active" THEN 1 ELSE 0

TerminalJobsStay ==
  \A i \in 1..Len(jobs) :
    Terminal(jobs[i]) => Len(jobs') >= i /\ jobs'[i] = jobs[i]

\* C12: a job is attempted at most 5 times, each retry after the failure of
\* the attempt before it; after its 5th failed attempt it is failed for good
\* and never runs again; every enqueued job eventually is completed or failed
\* for good.
C12_RetriesTerminate ==
  /\ [](AttemptsBounded /\ RetryAfterFailure)
  /\ [][TerminalJobsStay]_vars
  /\ \A i \in 1..MaxJobs :
       (Len(jobs) >= i) ~> (Len(jobs) >= i /\ Terminal(jobs[i]))

\* A job has failed for good after its 5th attempt, another one has completed
\* after failed attempts.
C12_Witness ==
  /\ \E i \in 1..Len(jobs) : jobs[i].state = "failed" /\ jobs[i].attemptsMade = ATTEMPTS
  /\ \E i \in 1..Len(jobs) : jobs[i].state = "completed" /\ jobs[i].attemptsMade > 1

\* --------------------------------------------- deletion of a source row

\* ON DELETE SET NULL of the three source references of OfferIndex.
SetNullRef(rows, kind, sourceId) ==
  {IF SourceRef(oi, kind) = Some(sourceId)
   THEN (IF kind = "CASHBACK" THEN [oi EXCEPT !.cashbackConfigurationId = Null]
         ELSE IF kind = "EXCLUSIVE" THEN [oi EXCEPT !.exclusiveOfferId = Null]
         ELSE [oi EXCEPT !.loyaltyProgramId = Null])
   ELSE oi : oi \in rows}

\* DELETE of a source row: the database applies the foreign key's action to
\* the OfferIndex row that references it.
DeleteCashback(id) ==
  /\ ~IsNull(cashbackConfiguration[id])
  /\ cashbackConfiguration' = [cashbackConfiguration EXCEPT ![id] = Null]
  /\ offerIndex' = SetNullRef(offerIndex, "CASHBACK", id)
  /\ lastOp' = "deleteCashback"
  /\ UNCHANGED <<exclusiveOffer, loyaltyProgram, customerType, staticVars,
                 offerIndexCustomerType, offerIndexOutlet, loyaltyTierIndex, nextId,
                 userMerchantProfile, queueVars, now, serveVars>>

DeleteExclusive(id) ==
  /\ ~IsNull(exclusiveOffer[id])
  /\ exclusiveOffer' = [exclusiveOffer EXCEPT ![id] = Null]
  /\ offerIndex' = SetNullRef(offerIndex, "EXCLUSIVE", id)
  /\ lastOp' = "deleteExclusive"
  /\ UNCHANGED <<cashbackConfiguration, loyaltyProgram, customerType, staticVars,
                 offerIndexCustomerType, offerIndexOutlet, loyaltyTierIndex, nextId,
                 userMerchantProfile, queueVars, now, serveVars>>

DeleteLoyalty(merchantId) ==
  /\ ~IsNull(loyaltyProgram[merchantId])
  /\ loyaltyProgram' = [loyaltyProgram EXCEPT ![merchantId] = Null]
  /\ offerIndex' = SetNullRef(offerIndex, "LOYALTY", Val(loyaltyProgram[merchantId]).id)
  /\ lastOp' = "deleteLoyalty"
  /\ UNCHANGED <<cashbackConfiguration, exclusiveOffer, customerType, staticVars,
                 offerIndexCustomerType, offerIndexOutlet, loyaltyTierIndex, nextId,
                 userMerchantProfile, queueVars, now, serveVars>>

DeleteExclusiveVersions == {BaseExclusive, [BaseExclusive EXCEPT !.Outlets = {O1}]}

\* One source offer exists, is changed, indexed and deleted; the recompute
\* functions run before and after the deletion.
NextDelete ==
  \/ \E v \in RaceCashbackVersions : session = NoSession /\ ChangeCashback(CB1, v)
  \/ \E v \in DeleteExclusiveVersions : session = NoSession /\ ChangeExclusive(EX1, v)
  \/ \E v \in RaceLoyaltyVersions : session = NoSession /\ ChangeLoyalty(M2, v)
  \/ session = NoSession /\ DeleteCashback(CB1)
  \/ session = NoSession /\ DeleteExclusive(EX1)
  \/ session = NoSession /\ DeleteLoyalty(M2)
  \/ session = NoSession /\ RebuildCashback(CB1)
  \/ session = NoSession /\ RebuildExclusive(EX1)
  \/ \E m \in {M1, M2} : session = NoSession /\ RebuildLoyalty(m)
  \/ FirstPage(U1, MaxTakeInput)
  \/ Forget

SpecDelete == InitRebuild /\ [][NextDelete]_vars

NoSourceOffer ==
  /\ \A id \in DOMAIN cashbackConfiguration : IsNull(cashbackConfiguration[id])
  /\ \A id \in DOMAIN exclusiveOffer : IsNull(exclusiveOffer[id])
  /\ \A m \in DOMAIN loyaltyProgram : IsNull(loyaltyProgram[m])

\* C13: after the source offer is deleted no OfferIndex row and no child row
\* of it remains, and no outlet is resolved through it. (Each run has one
\* source offer, so with no source offer left every index row is a row of
\* the deleted offer.)
C13_DeleteCascades ==
  NoSourceOffer =>
    /\ offerIndex = {}
    /\ offerIndexCustomerType = {} /\ offerIndexOutlet = {} /\ loyaltyTierIndex = {}
    /\ (lastOp = "firstPage" => ResponseIds = {})

\* The deleted offer's outlets are still returned.
C13_StillResolved == ~(NoSourceOffer /\ lastOp = "firstPage" /\ ResponseIds # {})

RefsOf(oi) ==
  {k \in {"CASHBACK", "EXCLUSIVE", "LOYALTY"} : ~IsNull(SourceRef(oi, k))}

\* C14: every OfferIndex row has exactly one of cashbackConfigurationId,
\* exclusiveOfferId and loyaltyProgramId non-null, the one of its kind, after
\* any sequence of recomputes and source deletions.
C14_ExactlyOneRef == \A oi \in offerIndex : RefsOf(oi) = {oi.kind}

SourceMissing(op) ==
  \/ op = "rebuildCashback" /\ IsNull(cashbackConfiguration[CB1])
  \/ op = "rebuildExclusive" /\ IsNull(exclusiveOffer[EX1])
  \/ op = "rebuildLoyalty" /\ \A m \in DOMAIN loyaltyProgram : IsNull(loyaltyProgram[m])

\* C15: a recompute function called for a source entity that does not exist
\* (cashback configuration, exclusive offer, merchant without loyalty
\* program) returns and leaves every index table as it was.
C15_MissingSourceIsNoOp ==
  [][SourceMissing(lastOp') =>
       /\ offerIndex' = offerIndex
       /\ offerIndexCustomerType' = offerIndexCustomerType
       /\ offerIndexOutlet' = offerIndexOutlet
       /\ loyaltyTierIndex' = loyaltyTierIndex
       /\ userMerchantProfile' = userMerchantProfile]_vars

\* A recompute has run for a deleted offer whose index rows are still there.
C15_Witness ==
  /\ SourceMissing(lastOp)
  /\ offerIndex # {} /\ offerIndexOutlet # {}

\* ---------------------------------------------- budget counters that are NaN

\* C16, cashback and exclusive offers: a budget counter that is not a number
\* (Number(x) is NaN) makes the recompute set budgetExhausted.
C16_OffersFailClosed ==
  /\ (lastOp = "rebuildCashback" /\ ~IsNull(cashbackConfiguration[CB1]) /\ CashbackInSync(CB1)) =>
       LET cc == Val(cashbackConfiguration[CB1])
       IN (BadBudget \in {cc.netCashbackBudget, cc.usedCashbackBudget}) =>
            /\ IndexRowOf("CASHBACK", CB1) # {}
            /\ \A oi \in IndexRowOf("CASHBACK", CB1) : oi.budgetExhausted
  /\ (lastOp = "rebuildExclusive" /\ ~IsNull(ReadExclusive(exclusiveOffer, EX1))
        /\ ExclusiveInSync(EX1)) =>
       LET eo == Val(exclusiveOffer[EX1])
       IN (BadBudget \in {eo.netOfferBudget, eo.usedOfferBudget}) =>
            /\ IndexRowOf("EXCLUSIVE", EX1) # {}
            /\ \A oi \in IndexRowOf("EXCLUSIVE", EX1) : oi.budgetExhausted

C16_LoyaltyFailsClosed ==
  (lastOp = "rebuildLoyalty" /\ ~IsNull(loyaltyProgram[M2]) /\ LoyaltyInSync(M2)) =>
    LET lp == Val(loyaltyProgram[M2])
    IN (BadBudget \in {lp.pointsIssuedLimit, lp.pointsUsedInPeriod}
        /\ lp.pointsIssuedLimit # NullBudget) =>
         /\ IndexRowOf("LOYALTY", lp.id) # {}
         /\ \A oi \in IndexRowOf("LOYALTY", lp.id) : oi.budgetExhausted

\* C16: for every offer kind, a budget counter that is not a valid number
\* (cashback net or used, exclusive net or used, loyalty limit or used) makes
\* the recompute set budgetExhausted = true.
C16_InvalidBudgetFailsClosed == C16_OffersFailClosed /\ C16_LoyaltyFailsClosed

\* ------------------------------------------- a recompute that fails midway

\* The function has returned to its caller.
Return(w) ==
  /\ runs[w].pc = "done" /\ runs[w].job = <<>>
  /\ runs' = [runs EXCEPT ![w] = IdleRun]
  /\ lastOp' = "return"
  /\ UNCHANGED <<srcVars, staticVars, idxVars, userMerchantProfile, jobs, nextJobId,
                 enqueued, offerIndexRebuildLog, now, serveVars>>

\* One caller at a time invokes a recompute function; the source changes
\* between the invocations only; an await of the running function may reject,
\* and the run ends there.
NextAtomic ==
  \/ \E v \in RaceCashbackVersions : runs[1].pc = "idle" /\ ChangeCashback(CB1, v)
  \/ \E v \in RaceLoyaltyVersions : runs[1].pc = "idle" /\ ChangeLoyalty(M2, v)
  \/ \E type \in {Some("New"), Some("Vip")} :
       runs[1].pc = "idle" /\ SetCustomerType(U1, M2, type)
  \/ Invoke(1, "cashback", CB1)
  \/ Invoke(1, "loyalty", M2)
  \/ Invoke(1, "profiles", U1)
  \/ RunRead(1)
  \/ RunUpsert(1)
  \/ RunReplace(1)
  \/ RunDeleteProfiles(1)
  \/ RunCreateProfiles(1)
  \/ RunThrows(1)
  \/ Return(1)

SpecAtomic == InitBackstop /\ [][NextAtomic]_vars

\* The index rows of the entity are the whole derivation of one state of its
\* source: the state before the change or the state after it.
WholeDerivation(op) ==
  IF op = "cashback"
  THEN \E v \in RaceCashbackVersions :
         RebuildResult(IndexTables,
                       ReadCashback([cashbackConfiguration EXCEPT ![CB1] = Some(v)], CB1))
           = IndexTables
  ELSE IF op = "loyalty"
  THEN \E v \in RaceLoyaltyVersions :
         RebuildResult(IndexTables,
                       ReadLoyalty([loyaltyProgram EXCEPT ![M2] = Some(v)], outlet, M2))
           = IndexTables
  ELSE \E type \in {"New", "Vip"} :
         RebuildProfilesResult(userMerchantProfile,
                               {[userId |-> U1, merchantId |-> M2, type |-> type]}, U1)
           = userMerchantProfile

\* C17: when a recompute fails at any of its steps, the index rows of the
\* entity (the profile rows of the user) are as they were before it or fully
\* recomputed: never a new parent with old children, never deleted and not
\* recreated. Every run starts from rows that are the whole derivation of
\* the source before or after the change, so both outcomes are such a whole
\* derivation.
C17_FailureLeavesOldOrNew ==
  \A w \in 1..NumSlots : runs[w].pc = "failed" => WholeDerivation(runs[w].op)

\* The profile rows of a user whose recompute failed.
C17_ProfilesOldOrNew ==
  \A w \in 1..NumSlots :
    (runs[w].pc = "failed" /\ runs[w].op = "profiles") => WholeDerivation("profiles")

\* ------------------------------------------ approval of a loyalty program

\* Merchant M2 has a loyalty program and one outlet; the user has no customer
\* type at M2, or is New or Vip there, with the profile row of that type;
\* nothing is indexed yet.
InitLoyalty ==
  /\ cashbackConfiguration = [id \in {CB1, CB2} |-> Null]
  /\ exclusiveOffer = [id \in {EX1} |-> Null]
  /\ loyaltyProgram = [m \in {M1, M2} |-> IF m = M2 THEN Some(BaseLoyalty) ELSE Null]
  /\ \E types \in {{}, {"New"}, {"Vip"}} :
       customerType = {[userId |-> U1, merchantId |-> M2, type |-> t] : t \in types}
  /\ userMerchantProfile = RebuildProfilesResult({}, customerType, U1)
  /\ InitEmptyIndex /\ InitIdleQueue
  /\ outlet = {OutletRow(O1, M1), OutletRow(O3, M2)}
  /\ merchant = {MerchantRow(M1), MerchantRow(M2)}
  /\ paybillOrTill = {PaybillRow(O1), PaybillRow(O3)}
  /\ proc = ConfiguredProcess
  /\ now = 0
  /\ redis = Null
  /\ session = NoSession
  /\ lastOp = "init"

NextLoyalty ==
  \/ \E v \in LoyaltyVersions : session = NoSession /\ ChangeLoyalty(M2, v)
  \/ session = NoSession /\ RebuildLoyalty(M2)
  \/ FirstPage(U1, MaxTakeInput)
  \/ Forget

SpecLoyalty == InitLoyalty /\ [][NextLoyalty]_vars

HasApprovedReward(lp) ==
  \E r \in lp.MerchantLoyaltyRewards : r.isActive /\ r.Review = Some("Approved")

HasQualifyingTier(lp) ==
  \E i \in 1..Len(lp.LoyaltyTiers) :
    LET t == lp.LoyaltyTiers[i]
    IN t.isActive /\ t.deletedAt = Null /\ t.Review = Some("Approved")

\* C18: after rebuildLoyaltyIndexByMerchant the program's isApprovedSnapshot
\* is true exactly when the program's review is Approved, it has a reward that
\* is active and Approved, and it has a tier that is active, not soft-deleted
\* and Approved; a program without such a tier or without such a reward gives
\* no outlet to the user.
C18_ApprovedSnapshotRule ==
  /\ (lastOp = "rebuildLoyalty" /\ ~IsNull(loyaltyProgram[M2])) =>
       LET lp == Val(loyaltyProgram[M2])
       IN /\ IndexRowOf("LOYALTY", lp.id) # {}
          /\ \A oi \in IndexRowOf("LOYALTY", lp.id) :
               oi.isApprovedSnapshot <=>
                 (lp.Review = Some("Approved") /\ HasApprovedReward(lp) /\ HasQualifyingTier(lp))
  /\ (lastOp = "firstPage" /\ ~IsNull(loyaltyProgram[M2]) /\ LoyaltyInSync(M2)) =>
       LET lp == Val(loyaltyProgram[M2])
       IN ~(HasApprovedReward(lp) /\ HasQualifyingTier(lp)) => ResponseIds = {}

\* A program that is active, approved and within its limit, with tiers the Vip
\* user reaches but with no reward, is indexed and gives the user no outlet.
C18_Witness ==
  /\ lastOp = "firstPage"
  /\ loyaltyProgram[M2] = Some([BaseLoyalty EXCEPT !.MerchantLoyaltyRewards = {}])
  /\ LoyaltyInSync(M2)
  /\ IndexRowOf("LOYALTY", LP2) # {}
  /\ \E p \in userMerchantProfile : p.customerType = "Vip"
  /\ ResponseIds = {}

\* The same user gets the outlet once the program has its approved reward.
C18_WitnessApproved ==
  /\ lastOp = "firstPage"
  /\ loyaltyProgram[M2] = Some(BaseLoyalty)
  /\ LoyaltyInSync(M2)
  /\ \E oi \in IndexRowOf("LOYALTY", LP2) : oi.isApprovedSnapshot
  /\ \E p \in userMerchantProfile : p.customerType = "Vip"
  /\ ResponseIds = {O3}

\* ------------------------------------------------- the cursor on its own

MaxSortKey == 11          \* sort keys 0..MaxSortKey: one and two digits
MaxIdLen == 3             \* outlet ids and cursor texts of up to MaxIdLen characters

RECURSIVE StringsUpTo(_, _)
StringsUpTo(alphabet, n) ==
  IF n = 0 THEN {<<>>}
  ELSE LET shorter == StringsUpTo(alphabet, n - 1)
       IN shorter \cup {Append(t, c) : t \in shorter, c \in alphabet}

\* Outlet ids (ids are not empty) and the texts whose base64 a client may
\* send as a cursor.
CursorOutletIds == StringsUpTo({"o", ":", "3"}, MaxIdLen) \ {<<>>}
CursorTexts == StringsUpTo({"1", "0", ":", "a"}, MaxIdLen) \ {<<>>}

\* A caller holds a sort key and an outlet id to encode, or a text to decode.
InitCursor ==
  /\ InitEmptySource /\ InitEmptyIndex /\ InitIdleQueue
  /\ outlet = {} /\ merchant = {} /\ paybillOrTill = {}
  /\ proc = ConfiguredProcess
  /\ userMerchantProfile = {}
  /\ now = 0
  /\ redis = Null
  /\ \/ \E k \in 0..MaxSortKey, id \in CursorOutletIds :
          session = [sortKey |-> Some(k), outletId |-> id, cursor |-> Null, decoded |-> Null]
     \/ \E t \in CursorTexts :
          session = [sortKey |-> Null, outletId |-> <<>>,
                     cursor |-> Some(Base64Encode(t)), decoded |-> Null]
  /\ lastOp = "init"

EncodeCursor ==
  /\ ~IsNull(session.sortKey) /\ IsNull(session.cursor)
  /\ session' = [session EXCEPT
                   !.cursor = Some(encodeCursor(Val(session.sortKey), session.outletId))]
  /\ lastOp' = "encodeCursor"
  /\ UNCHANGED <<srcVars, staticVars, idxVars, userMerchantProfile, queueVars, now, redis>>

DecodeCursor ==
  /\ ~IsNull(session.cursor) /\ lastOp # "decodeCursor"
  /\ session' = [session EXCEPT !.decoded = decodeCursor(session.cursor)]
  /\ lastOp' = "decodeCursor"
  /\ UNCHANGED <<srcVars, staticVars, idxVars, userMerchantProfile, queueVars, now, redis>>

NextCursor ==
  \/ EncodeCursor
  \/ DecodeCursor

SpecCursor == InitCursor /\ [][NextCursor]_vars

\* The text is encodeCursor(k, id) of some sort key k and non-empty id: the
\* base64 of the decimal digits of k, a colon and the id.
IsEncodedCursor(c) ==
  /\ Len(c) = 2 /\ c[1] = "base64"
  /\ \E i \in 2..(Len(c[2]) - 1) :
       LET digits == SubSeq(c[2], 1, i - 1)
       IN /\ c[2][i] = ":"
          /\ \A j \in 1..Len(digits) : IsDigit(digits[j])
          /\ NumberToString(DigitsValue(digits, 0)) = digits

\* C19, the round trip: decodeCursor(encodeCursor(sortKey, outletId)) is
\* {sortKey, outletId} for every sort key and every non-empty outlet id, ids
\* that contain ':' included.
C19_RoundTrip ==
  (lastOp = "decodeCursor" /\ ~IsNull(session.sortKey)) =>
    session.decoded = Some([sortKey |-> Val(session.sortKey), outletId |-> session.outletId])

\* C19, the rejection: decodeCursor returns null for every text that is not
\* an encoded cursor.
C19_RejectsOtherTexts ==
  (lastOp = "decodeCursor" /\ IsNull(session.sortKey) /\ ~IsEncodedCursor(Val(session.cursor))) =>
    IsNull(session.decoded)

\* C19: decodeCursor undoes encodeCursor for every integer sort key and every
\* non-empty outlet id (ids containing ':' included), and returns null for
\* every string that is not an encoded cursor.
C19_CursorRoundTrip == C19_RoundTrip /\ C19_RejectsOtherTexts

\* The round trip of the ids without a colon.
C19_RoundTripWithoutColon ==
  (lastOp = "decodeCursor" /\ ~IsNull(session.sortKey)
     /\ \A i \in 1..Len(session.outletId) : session.outletId[i] # ":") =>
    session.decoded = Some([sortKey |-> Val(session.sortKey), outletId |-> session.outletId])

\* ------------------------------------------- a cursor that does not decode

\* The base64 of "a": no colon, so decodeCursor returns null.
BadCursor == Base64Encode(<<"a">>)

\* The client sends a first-page request with a cursor that does not decode.
BadCursorPage(userId, take) ==
  LET input == PlainInput(take, Some(BadCursor))
      r == offersResolver(userId, input)
  IN /\ session' = [userId |-> userId, input |-> Some(input),
                    resp |-> Some(r.result), seen |-> NodeIds(r.result), offers |-> Null]
     /\ redis' = r.redis
     /\ lastOp' = "badCursorPage"
     /\ UNCHANGED <<srcVars, staticVars, idxVars, userMerchantProfile, queueVars, now>>

NextBadCursor ==
  \/ \E v \in ServeCashbackVersions : session = NoSession /\ ChangeCashback(CB1, v)
  \/ \E v \in ServeLoyaltyVersions : session = NoSession /\ ChangeLoyalty(M2, v)
  \/ session = NoSession /\ RebuildCashback(CB1)
  \/ session = NoSession /\ RebuildLoyalty(M2)
  \/ FirstPage(U1, MaxTakeInput)
  \/ BadCursorPage(U1, MaxTakeInput)
  \/ Forget

SpecBadCursor == InitServe /\ [][NextBadCursor]_vars

\* What the same request without cursor returns on this index and cache state.
NoCursorResponse == offersResolver(U1, PlainInput(MaxTakeInput, Null))

\* C20: a request whose cursor does not decode gets, on the same index state
\* and cache state, the response of the same request without cursor: the same
\* first page, hasNextPage and nextCursor.
C20_BadCursorAsNoCursor ==
  lastOp = "badCursorPage" =>
    /\ decodeCursor(Val(session.input).cursor) = Null
    /\ Val(session.resp) = NoCursorResponse.result

\* The same, where the request without cursor is not served from the cache.
C20_SameWhenComputed ==
  (lastOp = "badCursorPage" /\ ~NoCursorResponse.cached) =>
    Val(session.resp) = NoCursorResponse.result

\* ------------------------------------------------------- the page size

\* The values of input.take a client sends: none, and integers below, in and
\* above the range 1..50.
TakeInputs ==
  {Null} \cup {Some(n) : n \in -1..MaxTakeInput}
         \cup {Some(n) : n \in {DEFAULT_TAKE, MAX_TAKE - 1, MAX_TAKE, MAX_TAKE + 1}}

\* The client asks for a first page with that input.take.
TakePage(userId, take) ==
  LET input == [PlainInput(1, Null) EXCEPT !.take = take]
      r == offersResolver(userId, input)
  IN /\ session' = [userId |-> userId, input |-> Some(input),
                    resp |-> Some(r.result), seen |-> NodeIds(r.result), offers |-> Null]
     /\ redis' = r.redis
     /\ lastOp' = "takePage"
     /\ UNCHANGED <<srcVars, staticVars, idxVars, userMerchantProfile, queueVars, now>>

\* A caller applies normalizeTake to a value.
NormalizeTake(take) ==
  /\ session' = [userId |-> U1, input |-> Some([take |-> take]),
                 resp |-> Some([take |-> normalizeTake(take)]), seen |-> <<>>, offers |-> Null]
  /\ lastOp' = "normalizeTake"
  /\ UNCHANGED <<srcVars, staticVars, idxVars, userMerchantProfile, queueVars, now, redis>>

\* One live cashback offer for everyone, mapped to some of the outlets; the
\* cache is configured or not.
InitTake ==
  /\ InitEmptySource /\ InitIdleQueue /\ InitStatic(PageOutlets)
  /\ offerIndex = {OfferIndexRow(1, "CASHBACK", M1, CB1, LiveFlags, NoWindow, Some(MaxBps))}
  /\ offerIndexCustomerType = {[offerIndexId |-> 1, customerType |-> "All"]}
  /\ \E A \in SUBSET PageOutlets :
       offerIndexOutlet = {[offerIndexId |-> 1, outletId |-> o] : o \in A}
  /\ loyaltyTierIndex = {}
  /\ nextId = 2
  /\ userMerchantProfile = {}
  /\ now = 0
  /\ redis \in {Null, Some({})}
  /\ session = NoSession
  /\ lastOp = "init"

NextTake ==
  \/ \E take \in TakeInputs : NormalizeTake(take)
  \/ \E take \in TakeInputs : TakePage(U1, take)
  \/ Forget

SpecTake == InitTake /\ [][NextTake]_vars

\* 20 for no value, else the integer clamped to 1..50.
ClampedTake(take) ==
  IF take = Null THEN 20
  ELSE IF take[1] < 1 THEN 1
  ELSE IF take[1] > 50 THEN 50
  ELSE take[1]

ListingOutlets == {O1, O2, O3}

\* The rows a collaborator may leave outlet O1, its payment points and its
\* merchant in.
OutletVersions ==
  {OutletRow(O1, M1),
   [OutletRow(O1, M1) EXCEPT !.isActive = FALSE],
   [OutletRow(O1, M1) EXCEPT !.reviewStatus = Some("Pending")],
   [OutletRow(O1, M1) EXCEPT !.reviewStatus = Null]}
PaybillVersions ==
  {{PaybillRow(O1)},
   {},
   {[PaybillRow(O1) EXCEPT !.isActive = FALSE]},
   {[PaybillRow(O1) EXCEPT !.deletedAt = Some(0)]},
   {[PaybillRow(O1) EXCEPT !.reviewStatus = Some("Rejected")]},
   {[PaybillRow(O1) EXCEPT !.isActive = FALSE], PaybillRow(O1)}}
MerchantVersions ==
  {MerchantRow(M1), [MerchantRow(M1) EXCEPT !.status = "Pending"]}

SetOutlet(v) ==
  /\ outlet' = {o \in outlet : o.id # v.id} \cup {v}
  /\ lastOp' = "setOutlet"
  /\ UNCHANGED <<srcVars, merchant, paybillOrTill, proc, idxVars, userMerchantProfile, queueVars,
                 now, serveVars>>

SetPaybills(outletId, rows) ==
  /\ paybillOrTill' = {p \in paybillOrTill : p.outletId # outletId} \cup rows
  /\ lastOp' = "setPaybills"
  /\ UNCHANGED <<srcVars, outlet, merchant, proc, idxVars, userMerchantProfile, queueVars,
                 now, serveVars>>

SetMerchant(v) ==
  /\ merchant' = {m \in merchant : m.id # v.id} \cup {v}
  /\ lastOp' = "setMerchant"
  /\ UNCHANGED <<srcVars, outlet, paybillOrTill, proc, idxVars, userMerchantProfile, queueVars,
                 now, serveVars>>

\* One live cashback offer for everyone, mapped to the three outlets of
\* merchant M1; the cache is configured or not.
InitListing ==
  /\ InitEmptySource /\ InitIdleQueue /\ InitStatic(ListingOutlets)
  /\ offerIndex = {OfferIndexRow(1, "CASHBACK", M1, CB1, LiveFlags, NoWindow, Some(MaxBps))}
  /\ offerIndexCustomerType = {[offerIndexId |-> 1, customerType |-> "All"]}
  /\ offerIndexOutlet = {[offerIndexId |-> 1, outletId |-> o] : o \in ListingOutlets}
  /\ loyaltyTierIndex = {}
  /\ nextId = 2
  /\ userMerchantProfile = {}
  /\ now = 0
  /\ redis \in {Null, Some({})}
  /\ session = NoSession
  /\ lastOp = "init"

NextListing ==
  \/ \E v \in OutletVersions : session = NoSession /\ SetOutlet(v)
  \/ \E rows \in PaybillVersions : session = NoSession /\ SetPaybills(O1, rows)
  \/ \E v \in MerchantVersions : session = NoSession /\ SetMerchant(v)
  \/ session = NoSession /\ Tick
  \/ \E take \in 1..2 : FirstPage(U1, take)
  \/ NextPage
  \/ Forget

SpecListing == InitListing /\ [][NextListing]_vars


\* The position a cursor stands for: the sort key and the outlet id it is the
\* encoding of.
CursorPosition(cursor) ==
  CHOOSE p \in {[sortKey |-> k, outletId |-> o.id] : k \in 0..MaxBps, o \in outlet} :
    encodeCursor(p.sortKey, p.outletId) = cursor

\* The eligible outlets of the session's request that come after its cursor
\* in the order of the result (all of them when the request has no cursor).
RemainingAfterCursor ==
  LET input == Val(session.input)
  IN {r \in GroupedRows(session.userId, QueryOf(input), now) :
        IsNull(input.cursor) \/ RowBefore(CursorPosition(Val(input.cursor)), r)}

\* nextCursor is there exactly with hasNextPage, and is the encoding of the
\* last node of the page.
CursorOfLastNode(resp) ==
  /\ ~IsNull(resp.nextCursor) <=> resp.hasNextPage
  /\ ~IsNull(resp.nextCursor) =>
       /\ Len(resp.nodes) > 0
       /\ Val(resp.nextCursor) = encodeCursor(resp.nodes[Len(resp.nodes)].sortKey,
                                              resp.nodes[Len(resp.nodes)].id)

HasNextIffMoreRemain(resp) ==
  resp.hasNextPage <=>
    Cardinality(RemainingAfterCursor) > normalizeTake(Val(session.input).take)

\* C22: in every result of offersResolver nextCursor is non-null exactly when
\* hasNextPage is true, hasNextPage is true exactly when more than pageSize
\* eligible outlets remain after the cursor, and nextCursor encodes the sort
\* key and the outlet id of the last row of the page.
C22_NextCursorIffMoreRemain ==
  lastOp \in {"firstPage", "cachedPage", "nextPage"} =>
    /\ CursorOfLastNode(Val(session.resp))
    /\ HasNextIffMoreRemain(Val(session.resp))

\* The part of C22 the cursor's decoding has no hand in.
C22_CursorWithHasNextPage ==
  lastOp \in {"firstPage", "cachedPage", "nextPage"} => CursorOfLastNode(Val(session.resp))

\* C22 on the requests whose cursor names an outlet id without ':'.
C22_WithoutColon ==
  (/\ lastOp \in {"firstPage", "cachedPage", "nextPage"}
   /\ \/ IsNull(Val(session.input).cursor)
      \/ ":" \notin Range(CursorPosition(Val(Val(session.input).cursor)).outletId)) =>
    HasNextIffMoreRemain(Val(session.resp))


\* ------------------------------------------------- ranks of customer types

\* The arguments of customerTypeRank: null or undefined, the six types, and
\* other strings.
TypeInputs ==
  {Null} \cup {Some(ORDERED_CUSTOMER_TYPES[i]) : i \in 1..Len(ORDERED_CUSTOMER_TYPES)}
         \cup {Some(t) : t \in {"", "All", "UNKNOWN", "vip", "constructor", "toString",
                                "__proto__"}}
RankInputs == 0..(Len(ORDERED_CUSTOMER_TYPES) - 1)

\* A caller with its arguments.
InitRank ==
  /\ InitEmptySource /\ InitEmptyIndex /\ InitIdleQueue /\ InitStatic({})
  /\ userMerchantProfile = {}
  /\ now = 0
  /\ redis = Null
  /\ \E type \in TypeInputs, userRank \in RankInputs, tierMinRank \in RankInputs :
       session = [userId |-> U1,
                  input |-> Some([type |-> type, userRank |-> userRank,
                                  tierMinRank |-> tierMinRank]),
                  resp |-> Null, seen |-> <<>>, offers |-> Null]
  /\ lastOp = "init"

CustomerTypeRank ==
  /\ session' = [session EXCEPT !.resp = Some(customerTypeRank(Val(session.input).type))]
  /\ lastOp' = "customerTypeRank"
  /\ UNCHANGED <<srcVars, staticVars, idxVars, userMerchantProfile, queueVars, now, redis>>

IsTierEligible ==
  /\ session' = [session EXCEPT !.resp =
       Some(isTierEligible(Val(session.input).userRank, Val(session.input).tierMinRank))]
  /\ lastOp' = "isTierEligible"
  /\ UNCHANGED <<srcVars, staticVars, idxVars, userMerchantProfile, queueVars, now, redis>>

NextRank ==
  \/ CustomerTypeRank
  \/ IsTierEligible

SpecRank == InitRank /\ [][NextRank]_vars

\* NonCustomer, New, Infrequent, Occasional, Regular, Vip are 0..5; anything
\* else is 0.
RankTable(type) ==
  CASE type = Some("NonCustomer") -> 0
    [] type = Some("New") -> 1
    [] type = Some("Infrequent") -> 2
    [] type = Some("Occasional") -> 3
    [] type = Some("Regular") -> 4
    [] type = Some("Vip") -> 5
    [] OTHER -> 0

\* C23: customerTypeRank maps NonCustomer, New, Infrequent, Occasional,
\* Regular, Vip to 0..5 and every other string, null and undefined to 0;
\* isTierEligible(userRank, tierMinRank) is true exactly when userRank is at
\* least tierMinRank.
C23_RankOfEveryType ==
  /\ lastOp = "customerTypeRank" =>
       Val(session.resp) = JsNumber(RankTable(Val(session.input).type))
  /\ lastOp = "isTierEligible" =>
       (Val(session.resp) <=> ~(Val(session.input).userRank < Val(session.input).tierMinRank))

\* C23 on null, undefined and the strings that name no member of
\* Object.prototype.
C23_RankOfOtherTypes ==
  /\ (/\ lastOp = "customerTypeRank"
      /\ \/ IsNull(Val(session.input).type)
         \/ Val(Val(session.input).type) \notin OBJECT_PROTOTYPE_KEYS) =>
       Val(session.resp) = JsNumber(RankTable(Val(session.input).type))
  /\ lastOp = "isTierEligible" =>
       (Val(session.resp) <=> ~(Val(session.input).userRank < Val(session.input).tierMinRank))


\* --------------------------------------- the cases of the customer-type rule

\* 1) Offer allows All
AllMatch(oi, p) == ExistsCustomerType(oi, "All")

\* 2) User is a customer of merchant with matching type
TypeMatch(oi, p) ==
  ~IsNull(p.customerType) /\ ExistsCustomerType(oi, Val(p.customerType))

NonCustomerDefaultMatchAnyProfile(oi, p) == ExistsCustomerType(oi, "NonCustomer")

\* 3) Offer allows NonCustomer and user has no profile for merchant
NonCustomerDefaultMatch(oi, p) ==
  IsNull(p.customerType) /\ ExistsCustomerType(oi, "NonCustomer")

\* None of the three: the row is not eligible by this rule.
NoMatch(oi, p) == ~ResolverCustomerTypeRule(oi, p)

CasesOf(oi, p) ==
  {c \in {"All", "type", "NonCustomer", "none"} :
     \/ c = "All" /\ AllMatch(oi, p)
     \/ c = "type" /\ TypeMatch(oi, p)
     \/ c = "NonCustomer" /\ NonCustomerDefaultMatch(oi, p)
     \/ c = "none" /\ NoMatch(oi, p)}

RuleTypeChoices == SUBSET {"All", "NonCustomer", "Vip"}
RuleProfileChoices == {Null, Some("NonCustomer"), Some("New"), Some("Vip")}

\* One live cashback offer of merchant M1 at outlet O1 with any list of
\* eligible types; the user has no profile at M1 or one of some type.
InitRule ==
  /\ InitEmptySource /\ InitIdleQueue /\ InitStatic({O1})
  /\ offerIndex = {OfferIndexRow(1, "CASHBACK", M1, CB1, LiveFlags, NoWindow, Some(MaxBps))}
  /\ \E types \in RuleTypeChoices :
       offerIndexCustomerType = {[offerIndexId |-> 1, customerType |-> ct] : ct \in types}
  /\ offerIndexOutlet = {[offerIndexId |-> 1, outletId |-> O1]}
  /\ loyaltyTierIndex = {}
  /\ nextId = 2
  /\ \E type \in RuleProfileChoices :
       userMerchantProfile =
         IF IsNull(type) THEN {}
         ELSE {[userId |-> U1, merchantId |-> M1, customerType |-> Val(type),
                rank |-> NumberValue(customerTypeRank(type))]}
  /\ now = 0
  /\ redis \in {Null, Some({})}
  /\ session = NoSession
  /\ lastOp = "init"

NextRule ==
  \/ \E take \in 1..MaxTakeInput : FirstPage(U1, take)
  \/ LoadOffers
  \/ Forget

SpecRule == InitRule /\ [][NextRule]_vars

\* C24: for every offer type list and every profile or absence of one at the
\* offer's merchant exactly one of the four cases All-match, type-match,
\* NonCustomer-default-match and no-match applies to the row the query
\* evaluates: the three eligibility conditions are mutually exclusive.
C24_ExactlyOneCase ==
  lastOp = "firstPage" =>
    \A oi \in offerIndex : \A p \in LeftJoinProfile(oi, U1) :
      Cardinality(CasesOf(oi, p)) = 1

\* C24, amended: at least one of the four cases applies; no-match applies
\* exactly when none of the three conditions holds, and then the outlet is not
\* returned; type-match and NonCustomer-default-match never apply together;
\* All-match applies together with one of them exactly when the list has
\* 'All' and the other type as well; a list without 'All' gives exactly one case.
C24_CasesOfTheRule ==
  lastOp = "firstPage" =>
    \A oi \in offerIndex : \A p \in LeftJoinProfile(oi, U1) :
      /\ CasesOf(oi, p) # {}
      /\ "none" \in CasesOf(oi, p) <=> CasesOf(oi, p) = {"none"}
      /\ "none" \in CasesOf(oi, p) <=> O1 \notin ResponseIds
      /\ ~({"type", "NonCustomer"} \subseteq CasesOf(oi, p))
      /\ "All" \notin TypesOf(oi) => Cardinality(CasesOf(oi, p)) = 1
      /\ ResolverCustomerTypeRule(oi, p) <=>
           (AllMatch(oi, p) \/ TypeMatch(oi, p) \/ NonCustomerDefaultMatch(oi, p))

\* The offer lists 'All' and 'Vip', the user is a Vip customer: All-match and
\* type-match both apply and the outlet is returned.
C24_Witness ==
  /\ lastOp = "firstPage"
  /\ O1 \in ResponseIds
  /\ \E oi \in offerIndex : \E p \in LeftJoinProfile(oi, U1) :
       CasesOf(oi, p) = {"All", "type"}


\* ------------------------------------------------- the age of cached pages

\* The cache key of the session's request, and the page the query computes
\* for it on the tables as they are.
SessionKey(s) ==
  CacheKeyOf(s.userId, normalizeTake(Val(s.input).take), Val(s.input))
ComputedPage(s) ==
  PageOf(queryRaw(s.userId, QueryOf(Val(s.input)), decodeCursor(Val(s.input).cursor),
                  normalizeTake(Val(s.input).take), now),
         normalizeTake(Val(s.input).take))

\* An entry was stored CACHE_TTL seconds before it expires.
StoredAt(e) == e.expiresAt - CACHE_TTL

\* Every entry enters the cache in a step that computes a first page, under
\* the key of that request, holding that page.
StoredWhenComputed ==
  ~IsNull(redis) =>
    \A e \in Val(redis') \ Val(redis) :
      /\ lastOp' = "firstPage"
      /\ e.key = SessionKey(session')
      /\ e.value = JsonStringify(ComputedPage(session'))
      /\ Val(session'.resp) = ComputedPage(session')
      /\ StoredAt(e) = now

\* A response from the cache is the value of an entry of the request's key
\* stored at most CACHE_TTL seconds earlier.
ServedFromFreshEntry ==
  lastOp' = "cachedPage" =>
    \E e \in Val(redis) :
      /\ e.key = SessionKey(session')
      /\ JsonParse(e.value) = Val(session'.resp)
      /\ StoredAt(e) <= now /\ now - StoredAt(e) <= CACHE_TTL
      /\ redis' = redis

\* A first-page request whose key has no entry younger than CACHE_TTL seconds
\* runs the query, returns what it computes and stores it.
ExpiredEntryRecomputed ==
  (/\ lastOp' \in {"firstPage", "cachedPage"}
   /\ ~IsNull(redis)
   /\ \A e \in Val(redis) : e.key = SessionKey(session') => StoredAt(e) + CACHE_TTL <= now) =>
    /\ lastOp' = "firstPage"
    /\ Val(session'.resp) = ComputedPage(session')
    /\ \E e \in Val(redis') :
         e.key = SessionKey(session') /\ e.value = JsonStringify(ComputedPage(session'))
                                      /\ StoredAt(e) = now

\* C25: every response served from the cache is verbatim a page the query
\* computed for the same cache key at most 20 seconds earlier, and once 20
\* seconds have passed since an entry was stored the next first-page request
\* for its key runs the query again.
C25_CachedPagesAreFresh ==
  [][StoredWhenComputed /\ ServedFromFreshEntry /\ ExpiredEntryRecomputed]_vars

\* A page stored at time 0 is served ten seconds later although outlet O1 has
\* stopped qualifying in between; after twenty seconds the request is computed
\* again.
C25_Witness ==
  /\ lastOp = "cachedPage"
  /\ now = TickSeconds
  /\ \E e \in Val(redis) : e.key = SessionKey(session) /\ StoredAt(e) = 0
  /\ Val(session.resp) # ComputedPage(session)

C25_WitnessExpired ==
  /\ lastOp = "firstPage"
  /\ now = CACHE_TTL
  /\ ~IsNull(redis)
  /\ \E e \in Val(redis) : e.key = SessionKey(session) /\ StoredAt(e) = CACHE_TTL
  /\ O1 \notin ResponseIds


\* ------------------------------------------- a process without queue backend

MaxTimers == 1            \* startBackstopCron is called at most MaxTimers times

\* startOfferIndexWorker(): null without connection or queue; with them the
\* worker, or null when constructing it throws.
startOfferIndexWorker ==
  IF IsNull(redisConnection) \/ IsNull(offerIndexQueue) THEN {Null}
  ELSE {Some("offer-index"), Null}

StartOfferIndexWorker ==
  /\ IsNull(proc.worker)
  /\ \E worker \in startOfferIndexWorker : proc' = [proc EXCEPT !.worker = worker]
  /\ lastOp' = "startWorker"
  /\ UNCHANGED <<srcVars, outlet, merchant, paybillOrTill, idxVars, userMerchantProfile,
                 queueVars, now, serveVars>>

\* startBackstopCron(): returns when there is no queue, installs the timer
\* otherwise.
InstallBackstopCron ==
  /\ proc.timers < MaxTimers
  /\ proc' = IF IsNull(offerIndexQueue) THEN proc ELSE [proc EXCEPT !.timers = @ + 1]
  /\ lastOp' = "startCron"
  /\ UNCHANGED <<srcVars, outlet, merchant, paybillOrTill, idxVars, userMerchantProfile,
                 queueVars, now, serveVars>>

\* A process that has started nothing yet, with or without REDIS_URL, over an
\* index of one live offer at some outlets; the result cache is there or not.
InitNoQueue ==
  /\ InitEmptySource /\ InitIdleQueue
  /\ outlet = {OutletRow(o, M1) : o \in PageOutlets}
  /\ merchant = {MerchantRow(M1), MerchantRow(M2)}
  /\ paybillOrTill = {PaybillRow(o) : o \in PageOutlets}
  /\ \E url \in {Null, Some(<<>>), Some(RedisUrl)} :
       proc = [REDIS_URL |-> url, worker |-> Null, timers |-> 0]
  /\ offerIndex = {OfferIndexRow(1, "CASHBACK", M1, CB1, LiveFlags, NoWindow, Some(MaxBps))}
  /\ offerIndexCustomerType = {[offerIndexId |-> 1, customerType |-> "All"]}
  /\ \E A \in SUBSET PageOutlets :
       offerIndexOutlet = {[offerIndexId |-> 1, outletId |-> o] : o \in A}
  /\ loyaltyTierIndex = {}
  /\ nextId = 2
  /\ userMerchantProfile = {}
  /\ now = 0
  /\ redis \in {Null, Some({})}
  /\ session = NoSession
  /\ lastOp = "init"

NoQueueJobs == {Job("LOYALTY_CHANGED", M2), Job("FULL_REBUILD", Altarage)}

NextNoQueue ==
  \/ \E job \in NoQueueJobs : session = NoSession /\ Enqueue(job)
  \/ session = NoSession /\ StartOfferIndexWorker
  \/ session = NoSession /\ InstallBackstopCron
  \/ FirstPage(U1, 2)
  \/ Forget

SpecNoQueue == InitNoQueue /\ [][NextNoQueue]_vars

NoQueueBackend == IsNull(proc.REDIS_URL) \/ Val(proc.REDIS_URL) = <<>>

\* C26: without queue backend enqueueOfferIndexJob returns without effect,
\* startOfferIndexWorker returns null and startBackstopCron installs no timer,
\* while offersResolver answers from the index as it is.
C26_NoQueueNoEffect ==
  NoQueueBackend =>
    /\ jobs = <<>> /\ nextJobId = 1
    /\ IsNull(proc.worker)
    /\ proc.timers = 0
    /\ lastOp = "enqueue" => enqueued # Null /\ ~Val(enqueued).added
    /\ lastOp = "firstPage" => Val(session.resp) = ComputedPage(session)
    /\ lastOp \in {"firstPage", "cachedPage"} =>
         Range(NodeIds(Val(session.resp))) \subseteq EligibleOutletIds(U1, Val(session.input))

\* Without REDIS_URL a call of enqueueOfferIndexJob has returned and a page of
\* two outlets is answered.
C26_Witness ==
  /\ NoQueueBackend
  /\ lastOp = "firstPage"
  /\ enqueued # Null
  /\ Len(Val(session.resp).nodes) = 2


\* ------------------------------------------------- the log of failed attempts

\* The job whose attempt fails in this step: the one the failing slot runs.
FailingJobs ==
  {i \in 1..Len(jobs) : \E w \in 1..NumSlots : runs[w].pc = "failed" /\ runs[w].job = jobs[i].id}

\* A failing step appends at most one row, a FAILED row with the job's
\* variant, entity id and attempt count; written or not, the job is delayed
\* while it has attempts left and failed for good otherwise, and its slot is
\* free again.
FailedAttemptLogged ==
  lastOp' = "fail" =>
    \E i \in FailingJobs :
      /\ \/ offerIndexRebuildLog' = offerIndexRebuildLog
         \/ /\ Len(offerIndexRebuildLog') = Len(offerIndexRebuildLog) + 1
            /\ SubSeq(offerIndexRebuildLog', 1, Len(offerIndexRebuildLog)) = offerIndexRebuildLog
            /\ LET row == offerIndexRebuildLog'[Len(offerIndexRebuildLog')]
               IN /\ row.status = "FAILED"
                  /\ row.entityType = jobs[i].data.type
                  /\ row.entityId = jobs[i].data.target
                  /\ row.attempts = jobs[i].attemptsMade
                  /\ row.attempts \in 1..ATTEMPTS
      /\ Len(jobs') = Len(jobs)
      /\ jobs'[i].attemptsMade = jobs[i].attemptsMade
      /\ jobs'[i].state = IF jobs[i].attemptsMade < ATTEMPTS THEN "delayed" ELSE "failed"
      /\ \A k \in 1..Len(jobs) : k # i => jobs'[k] = jobs[k]
      /\ \A w \in 1..NumSlots : runs[w].job = jobs[i].id => runs'[w] = IdleRun

\* No other step writes the log: a completed job appends no row.
OnlyFailuresLogged ==
  lastOp' # "fail" => offerIndexRebuildLog' = offerIndexRebuildLog

\* Never more rows of a job than attempts it has made.
RowsWithinAttempts ==
  \A i \in 1..Len(jobs) :
    Cardinality({k \in 1..Len(offerIndexRebuildLog) :
                   /\ offerIndexRebuildLog[k].entityType = jobs[i].data.type
                   /\ offerIndexRebuildLog[k].entityId = jobs[i].data.target}) <= jobs[i].attemptsMade

\* C27: each failed attempt appends one FAILED row with the job's variant,
\* target entity id and attempt count; when writing the row fails the worker
\* keeps running and the job's outcome and retry schedule are as if it had
\* been written; a successful job appends no row.
C27_FailedAttemptsLogged ==
  /\ [][FailedAttemptLogged /\ OnlyFailuresLogged]_vars
  /\ []RowsWithinAttempts

\* A job completes on its third attempt; the row of its first failure was
\* lost, the row of its second one is in the log.
C27_Witness ==
  /\ lastOp = "complete"
  /\ \E i \in 1..Len(jobs) : jobs[i].state = "completed" /\ jobs[i].attemptsMade = 3
  /\ Len(offerIndexRebuildLog) = 1
  /\ offerIndexRebuildLog[1].attempts = 2


\* ------------------------------------------------ the text of the statement

\* The joins of the outer SELECT and of the two branches: the same text in
\* every call.
QueryJoins ==
  <<"OfferIndex JOIN OfferIndexOutlet", "LEFT JOIN profile",
    "eligible_outlets JOIN Outlet", "JOIN Merchant", "LEFT JOIN Review">>

\* The predicates of the two branches: the percentage bounds are parameters
\* of predicates that are always there.
BranchPredicates ==
  <<"kind", "isActiveSnapshot", "isApprovedSnapshot", "deletedAtSnapshot", "budgetExhausted",
    "date window", "minBps IS NULL OR >=", "maxBps IS NULL OR <=", "customer type rule",
    "loyalty tier">>

\* The predicates of the outer WHERE: the category, search and keyset
\* fragments are part of the text only when the value is there.
OuterPredicates(q, cursor) ==
  <<"o.isActive", "r.status", "m.status">>
  \o (IF ~IsNull(q.category) /\ Val(q.category) # <<>> THEN <<"m.category =">> ELSE <<>>)
  \o (IF ~IsNull(q.search) /\ Val(q.search) # <<>> THEN <<"ILIKE">> ELSE <<>>)
  \o <<"EXISTS PaybillOrTill">>
  \o (IF ~IsNull(cursor) THEN <<"keyset">> ELSE <<>>)

\* The shape of the statement offersResolver sends for an input.
QueryShape(input) ==
  [joins |-> QueryJoins,
   predicates |-> BranchPredicates \o OuterPredicates(QueryOf(input), decodeCursor(input.cursor))]

ShapeInputs ==
  {[search |-> s, category |-> c, percentage |-> p, take |-> Some(1), cursor |-> k] :
     s \in {Null, Some(<<>>), Some(<<"o">>)},
     c \in {Null, Some(<<>>), Some(Food)},
     p \in {Null, Some([minBps |-> Some(0), maxBps |-> Null]),
            Some([minBps |-> Some(0), maxBps |-> Some(MaxBps)])},
     k \in {Null, Some(encodeCursor(MaxBps, O1)), Some(BadCursor)}}

\* A request with its input, before the statement is built.
InitShape ==
  /\ InitEmptySource /\ InitEmptyIndex /\ InitIdleQueue /\ InitStatic({O1})
  /\ userMerchantProfile = {}
  /\ now = 0
  /\ redis = Null
  /\ \E input \in ShapeInputs :
       session = [userId |-> U1, input |-> Some(input), resp |-> Null, seen |-> <<>>,
                  offers |-> Null]
  /\ lastOp = "init"

\* offersResolver builds the statement for the input.
BuildQuery ==
  /\ lastOp = "init"
  /\ session' = [session EXCEPT !.resp = Some(QueryShape(Val(session.input)))]
  /\ lastOp' = "buildQuery"
  /\ UNCHANGED <<srcVars, staticVars, idxVars, userMerchantProfile, queueVars, now, redis>>

NextShape ==
  \/ BuildQuery

SpecShape == InitShape /\ [][NextShape]_vars

\* The shape of the statement for a request without search, category,
\* percentage and cursor.
PlainShape == QueryShape(PlainInput(1, Null))

\* C28: the statement has the same joins and the same list of predicates for
\* every combination of search, category, cursor and percentage bounds being
\* there or not; only parameter values differ.
C28_SameShapeForEveryInput ==
  lastOp = "buildQuery" => Val(session.resp) = PlainShape

\* The joins are the same for every input, and so is the list of predicates
\* over the inputs without category, search and decodable cursor, percentage
\* bounds there or not.
C28_SameShapeForPercentage ==
  lastOp = "buildQuery" =>
    /\ Val(session.resp).joins = PlainShape.joins
    /\ LET input == Val(session.input)
       IN (/\ IsNull(input.category) \/ Trim(Val(input.category)) = <<>>
           /\ IsNull(input.search) \/ Trim(Val(input.search)) = <<>>
           /\ IsNull(decodeCursor(input.cursor))) =>
            Val(session.resp) = PlainShape


\* ------------------------------------------- the outlets a response may name

\* The outlet is active with an approved review, its merchant is active, and
\* it has a payment point that is active, not deleted and approved.
QualifiedOutlet(id) ==
  \E o \in outlet :
    /\ o.id = id
    /\ o.isActive /\ o.reviewStatus = Some("Approved")
    /\ \E m \in merchant : m.id = o.merchantId /\ m.status = "Active"
    /\ \E p \in paybillOrTill :
         /\ p.outletId = id
         /\ p.isActive /\ IsNull(p.deletedAt) /\ p.reviewStatus = Some("Approved")

\* C29: every returned outlet is active with an approved review, belongs to
\* an active merchant and has a payment point that is active, not deleted and
\* approved; an outlet of an eligible offer without such a payment point is
\* never returned.
C29_ReturnedOutletsQualified ==
  lastOp \in {"firstPage", "cachedPage", "nextPage"} =>
    \A id \in ResponseIds : QualifiedOutlet(id)

\* C29, amended: the same for every response offersResolver computes from the
\* tables; a first page from the cache names outlets that qualified when the
\* page was stored, less than CACHE_TTL seconds before.
C29_ComputedOutletsQualified ==
  /\ lastOp \in {"firstPage", "nextPage"} =>
       /\ \A id \in ResponseIds : QualifiedOutlet(id)
       /\ \A id \in EligibleOutletIds(U1, Val(session.input)) : QualifiedOutlet(id)
  /\ lastOp = "cachedPage" =>
       \E e \in Val(redis) :
         /\ e.key = SessionKey(session)
         /\ ResponseIds = Range(NodeIds(JsonParse(e.value)))
         /\ now - StoredAt(e) < CACHE_TTL

\* Outlet O1 is mapped to the live offer and has only an inactive payment
\* point: the computed page starts with O2.
C29_Witness ==
  /\ lastOp = "firstPage"
  /\ \E oio \in offerIndexOutlet : oio.outletId = O1 /\ LiveRowFor(O1)
  /\ \E o \in outlet : o.id = O1 /\ o.isActive /\ o.reviewStatus = Some("Approved")
  /\ \E p \in paybillOrTill : p.outletId = O1
  /\ ~QualifiedOutlet(O1)
  /\ Val(session.resp).nodes[1].id = O2


\* ------------------------------------------------- date windows and the clock

WindowChoices ==
  {NoWindow,
   <<Some(0), Some(0)>>,
   <<Some(TickSeconds), Some(TickSeconds)>>,
   <<Some(0), Some(2 * TickSeconds)>>,
   <<Some(TickSeconds), Null>>,
   <<Null, Some(TickSeconds)>>}

\* A cashback configuration at outlet O1 and an exclusive offer at outlet O2,
\* each with a date window, indexed as rebuildCashbackIndex and
\* rebuildExclusiveIndex leave them.
InitWindow ==
  /\ \E w1 \in WindowChoices, w2 \in WindowChoices :
       /\ cashbackConfiguration =
            [id \in {CB1, CB2} |->
               IF id = CB1
               THEN Some([BaseCashback EXCEPT !.startDate = w1[1], !.endDate = w1[2]])
               ELSE Null]
       /\ exclusiveOffer =
            [id \in {EX1} |->
               Some([BaseExclusive EXCEPT !.startDate = w2[1], !.endDate = w2[2],
                                          !.Outlets = {O2}])]
       /\ offerIndex = {OfferIndexRow(1, "CASHBACK", M1, CB1, LiveFlags, w1, Some(1)),
                        OfferIndexRow(2, "EXCLUSIVE", M1, EX1, LiveFlags, w2, Null)}
  /\ loyaltyProgram = [m \in {M1, M2} |-> Null]
  /\ customerType = {}
  /\ InitIdleQueue /\ InitStatic({O1, O2})
  /\ offerIndexCustomerType = {[offerIndexId |-> 1, customerType |-> "All"],
                               [offerIndexId |-> 2, customerType |-> "NonCustomer"]}
  /\ offerIndexOutlet = {[offerIndexId |-> 1, outletId |-> O1],
                         [offerIndexId |-> 2, outletId |-> O2]}
  /\ loyaltyTierIndex = {}
  /\ nextId = 3
  /\ userMerchantProfile = {}
  /\ now = 0
  /\ redis \in {Null, Some({})}
  /\ session = NoSession
  /\ lastOp = "init"

NextWindow ==
  \/ Tick
  \/ FirstPage(U1, 2)
  \/ LoadOffers
  \/ Forget

SpecWindow == InitWindow /\ [][NextWindow]_vars

\* What the claim says of a window at time t.
WindowRule(start, end, t) ==
  CASE ~IsNull(start) /\ ~IsNull(end) -> Val(start) <= t /\ t <= Val(end)
    [] IsNull(start) /\ IsNull(end) -> TRUE
    [] OTHER -> FALSE

\* The index row of the offer mapped to the outlet.
OfferAt(outletId) ==
  CHOOSE oi \in offerIndex :
    \E oio \in offerIndexOutlet : oio.offerIndexId = oi.id /\ oio.outletId = outletId

\* The offers the loaders found at the outlet.
LoadedAt(outletId) ==
  Val(session.offers).cashback[outletId] \cup Val(session.offers).exclusive[outletId]

\* A page computed now names exactly the outlets whose offer's window is open
\* now, and the loaders running now find exactly the offers whose window is
\* open now.
WindowEvaluatedNow ==
  /\ lastOp = "firstPage" =>
       \A oio \in offerIndexOutlet :
         oio.outletId \in ResponseIds
           <=> WindowRule(OfferAt(oio.outletId).startDate, OfferAt(oio.outletId).endDate, now)
  /\ lastOp = "loadOffers" =>
       \A id \in ResponseIds :
         LoadedAt(id) # {}
           <=> WindowRule(OfferAt(id).startDate, OfferAt(id).endDate, now)

\* Neither the clock nor a request writes the index.
NoIndexWrite == UNCHANGED <<idxVars, srcVars>>

\* C30: the date window of a CASHBACK or EXCLUSIVE offer is evaluated against
\* the clock of the request, with no index write: with both bounds set the
\* offer is eligible exactly while startDate <= now <= endDate, with both
\* bounds null at every time, with exactly one bound null never.
C30_WindowAtRequestTime == []WindowEvaluatedNow /\ [][NoIndexWrite]_vars

\* The page computed at time 0 named outlet O1, whose cashback window was
\* open then; the loaders run one tick later find the window closed, the index
\* row being the same; outlet O2, whose offer has one bound only, is not named.
C30_Witness ==
  /\ lastOp = "loadOffers"
  /\ now = TickSeconds
  /\ O1 \in ResponseIds /\ O2 \notin ResponseIds
  /\ OfferAt(O1).startDate = Some(0) /\ OfferAt(O1).endDate = Some(0)
  /\ LoadedAt(O1) = {}
  /\ IsNull(OfferAt(O2).startDate) # IsNull(OfferAt(O2).endDate)


\* ------------------------------------------- several offers at one outlet

\* The client asks for the first page with an input of its own.
FirstPageWith(userId, input) ==
  LET r == offersResolver(userId, input)
  IN /\ input.cursor = Null
     /\ session' = [userId |-> userId, input |-> Some(input),
                    resp |-> Some(r.result), seen |-> NodeIds(r.result), offers |-> Null]
     /\ redis' = r.redis
     /\ lastOp' = IF r.cached THEN "cachedPage" ELSE "firstPage"
     /\ UNCHANGED <<srcVars, staticVars, idxVars, userMerchantProfile, queueVars, now>>

BpsChoices == 0..(MaxBps + 1)
BoundChoices == {Null} \cup {Some(n) : n \in BpsChoices}
PercentageInputs ==
  {Null} \cup {Some([minBps |-> lo, maxBps |-> hi]) : lo \in BoundChoices, hi \in BoundChoices}

FilterOutlets == {O1, O2}

\* Two cashback offers, an exclusive offer and a loyalty program of merchant
\* M1, all open to a user without profile; outlet O1 is mapped to any of them,
\* outlet O2 to the second cashback offer and the loyalty program.
InitFilter ==
  /\ InitEmptySource /\ InitIdleQueue /\ InitStatic(FilterOutlets)
  /\ \E a \in BpsChoices, b \in BpsChoices :
       offerIndex = {OfferIndexRow(1, "CASHBACK", M1, CB1, LiveFlags, NoWindow, Some(a)),
                     OfferIndexRow(2, "CASHBACK", M1, CB2, LiveFlags, NoWindow, Some(b)),
                     OfferIndexRow(3, "EXCLUSIVE", M1, EX1, LiveFlags, NoWindow, Null),
                     OfferIndexRow(4, "LOYALTY", M1, LP2, LiveFlags, NoWindow, Null)}
  /\ offerIndexCustomerType = {[offerIndexId |-> i, customerType |-> "All"] : i \in {1, 2, 3}}
  /\ \E A \in SUBSET {1, 2, 3, 4}, B \in SUBSET {2, 4} :
       offerIndexOutlet = {[offerIndexId |-> i, outletId |-> O1] : i \in A}
                          \cup {[offerIndexId |-> i, outletId |-> O2] : i \in B}
  /\ loyaltyTierIndex = {TierRow(4, 0, 1)}
  /\ nextId = 5
  /\ userMerchantProfile = {}
  /\ now = 0
  /\ redis = Null
  /\ session = NoSession
  /\ lastOp = "init"

NextFilter ==
  \/ \E pc \in PercentageInputs :
       session = NoSession
       /\ FirstPageWith(U1, [PlainInput(MaxTakeInput, Null) EXCEPT !.percentage = pc])
  \/ Forget

SpecFilter == InitFilter /\ [][NextFilter]_vars

\* The offers through which the outlet qualifies for the session's request,
\* each with the percentage it brings.
QualifyingOffers(outletId) ==
  LET q == QueryOf(Val(session.input))
  IN {r \in CashbackOrExclusiveMatches(session.userId, q.minBps, q.maxBps, now)
             \cup LoyaltyMatches(session.userId) : r.outletId = outletId}

PercentageOf(offerIndexId) ==
  LET oi == CHOOSE x \in offerIndex : x.id = offerIndexId
  IN IF oi.kind = "LOYALTY" THEN 0 ELSE Coalesce(oi.maxCashbackPercentBps, 0)

\* C31: an outlet that qualifies through several offers appears once in the
\* result, and its sortKey is the maximum of maxCashbackPercentBps (0 when
\* absent, 0 for loyalty) over the offers through which it qualifies.
C31_OnceWithMaxSortKey ==
  lastOp = "firstPage" =>
    LET nodes == Val(session.resp).nodes
    IN /\ NoDuplicates(NodeIds(Val(session.resp)))
       /\ \A o \in FilterOutlets :
            QualifyingOffers(o) # {} <=> o \in ResponseIds
       /\ \A i \in 1..Len(nodes) :
            \A r \in QualifyingOffers(nodes[i].id) :
              /\ PercentageOf(r.offerIndexId) <= nodes[i].sortKey
       /\ \A i \in 1..Len(nodes) :
            \E r \in QualifyingOffers(nodes[i].id) :
              PercentageOf(r.offerIndexId) = nodes[i].sortKey

\* Outlet O1 qualifies through two cashback offers of different percentages
\* and through the loyalty program; it is on the page once, with the higher
\* percentage.
C31_Witness ==
  /\ lastOp = "firstPage"
  /\ {r.offerIndexId : r \in QualifyingOffers(O1)} = {1, 2, 4}
  /\ PercentageOf(1) < PercentageOf(2)
  /\ \E i \in 1..Len(Val(session.resp).nodes) :
       /\ Val(session.resp).nodes[i].id = O1
       /\ Val(session.resp).nodes[i].sortKey = PercentageOf(2)


\* --------------------------------------------------- the percentage filter

WithinBounds(k, pc) ==
  /\ IsNull(pc.minBps) \/ k >= Val(pc.minBps)
  /\ IsNull(pc.maxBps) \/ k <= Val(pc.maxBps)

\* C37: with minBps and/or maxBps supplied, every outlet of the result has a
\* sortKey within the inclusive bounds; with minBps > 0 no outlet is returned
\* whose only qualifying offers are loyalty or exclusive offers.
C37_SortKeyWithinBounds ==
  (lastOp = "firstPage" /\ ~IsNull(Val(session.input).percentage)) =>
    LET nodes == Val(session.resp).nodes
    IN \A i \in 1..Len(nodes) :
         WithinBounds(nodes[i].sortKey, Val(Val(session.input).percentage))

\* C37 for the outlets that do not qualify through a loyalty program: their
\* sortKey is within the bounds.
C37_WithinBoundsWithoutLoyalty ==
  (lastOp = "firstPage" /\ ~IsNull(Val(session.input).percentage)) =>
    LET nodes == Val(session.resp).nodes
    IN \A i \in 1..Len(nodes) :
         \/ WithinBounds(nodes[i].sortKey, Val(Val(session.input).percentage))
         \/ \E r \in QualifyingOffers(nodes[i].id) : r \in LoyaltyMatches(session.userId)


\* ------------------------------------------------------ the order of pages

\* The outlets the session has fetched so far, each with its sort key.
SeenRows ==
  [i \in 1..Len(session.seen) |->
     CHOOSE r \in GroupedRows(session.userId, QueryOf(Val(session.input)), now) :
       r.outletId = session.seen[i]]

\* The rows of the page the session holds.
PageRows ==
  [i \in 1..Len(Val(session.resp).nodes) |->
     [outletId |-> Val(session.resp).nodes[i].id,
      sortKey |-> Val(session.resp).nodes[i].sortKey]]

StrictlyOrdered(rows) == \A i \in 1..(Len(rows) - 1) : RowBefore(rows[i], rows[i + 1])

\* C32: within every returned page, and across the concatenation of
\* consecutive pages, outlets are in strictly decreasing order of the pair
\* (sortKey descending, outletId ascending).
C32_PagesStrictlyOrdered ==
  ~IsNull(session.resp) => StrictlyOrdered(PageRows) /\ StrictlyOrdered(SeenRows)

\* C32 within one page: the nodes are in the order of the rows of the query.
C32_PageStrictlyOrdered ==
  ~IsNull(session.resp) => StrictlyOrdered(PageRows)

\* C32 across pages, when no outlet id holds a ':'.
C32_WithoutColon ==
  (~IsNull(session.resp)
     /\ \A oio \in offerIndexOutlet : \A i \in 1..Len(oio.outletId) : oio.outletId[i] # ":")
    => StrictlyOrdered(SeenRows)


\* ------------------------------------------------- tiers of a configuration

\* Tiers a cashback configuration may have: two that count, and one each that
\* is inactive, soft-deleted, under review, or without review, with a higher
\* percentage.
TierChoices ==
  {CashbackTier(TRUE, Null, Some("Approved"), 1),
   CashbackTier(TRUE, Null, Some("Approved"), MaxBps + 1),
   CashbackTier(FALSE, Null, Some("Approved"), MaxBps + 2),
   CashbackTier(TRUE, Some(0), Some("Approved"), MaxBps + 2),
   CashbackTier(TRUE, Null, Some("Pending"), MaxBps + 2),
   CashbackTier(TRUE, Null, Null, MaxBps + 2)}

TierVersions ==
  {[BaseCashback EXCEPT !.CashbackConfigurationTiers = ts] : ts \in SUBSET TierChoices}

\* Configuration CB1 exists with some tiers; nothing is indexed yet.
InitTiers ==
  /\ \E v \in TierVersions :
       cashbackConfiguration = [id \in {CB1, CB2} |-> IF id = CB1 THEN Some(v) ELSE Null]
  /\ exclusiveOffer = [id \in {EX1} |-> Null]
  /\ loyaltyProgram = [m \in {M1, M2} |-> Null]
  /\ customerType = {}
  /\ InitEmptyIndex /\ InitIdleQueue /\ InitStatic({O1})
  /\ nextId = 1
  /\ userMerchantProfile = {}
  /\ now = 0
  /\ redis = Null
  /\ session = NoSession
  /\ lastOp = "init"

NextTiers ==
  \/ \E v \in TierVersions : session = NoSession /\ ChangeCashback(CB1, v)
  \/ session = NoSession /\ RebuildCashback(CB1)

SpecTiers == InitTiers /\ [][NextTiers]_vars

\* The tiers of the configuration that are active, not soft-deleted and have
\* an Approved review.
CountingTiers(id) ==
  {t \in Val(cashbackConfiguration[id]).CashbackConfigurationTiers :
     t.isActive /\ t.deletedAt = Null /\ t.reviewStatus = Some("Approved")}

\* C33: after rebuildCashbackIndex the row's maxCashbackPercentBps is the
\* maximum percentage over the tiers that are active, not soft-deleted and
\* approved, and 0 when there is none; other tiers never raise it.
C33_MaxOverCountingTiers ==
  lastOp = "rebuildCashback" =>
    \E oi \in IndexRowOf("CASHBACK", CB1) :
      /\ ~IsNull(oi.maxCashbackPercentBps)
      /\ \A t \in CountingTiers(CB1) : t.percentage <= Val(oi.maxCashbackPercentBps)
      /\ IF CountingTiers(CB1) = {}
         THEN Val(oi.maxCashbackPercentBps) = 0
         ELSE \E t \in CountingTiers(CB1) : t.percentage = Val(oi.maxCashbackPercentBps)

\* The configuration has both counting tiers and a tier of each other sort
\* with a higher percentage; the rebuilt row holds the higher counting one.
C33_Witness ==
  /\ lastOp = "rebuildCashback"
  /\ Val(cashbackConfiguration[CB1]).CashbackConfigurationTiers = TierChoices
  /\ \E oi \in IndexRowOf("CASHBACK", CB1) : oi.maxCashbackPercentBps = Some(MaxBps + 1)

\* No counting tier: the rebuilt row holds 0.
C33_WitnessNone ==
  /\ lastOp = "rebuildCashback"
  /\ CountingTiers(CB1) = {}
  /\ Val(cashbackConfiguration[CB1]).CashbackConfigurationTiers # {}
  /\ \E oi \in IndexRowOf("CASHBACK", CB1) : oi.maxCashbackPercentBps = Some(0)


\* ------------------------------------------- the profile rows of one user

U2 == <<"u", "2">>

\* Profile rows left by earlier runs: of the user at both merchants, and of
\* another user.
StaleProfiles ==
  {[userId |-> U1, merchantId |-> M1, customerType |-> "Vip", rank |-> 5],
   [userId |-> U1, merchantId |-> M2, customerType |-> "New", rank |-> 1],
   [userId |-> U2, merchantId |-> M1, customerType |-> "New", rank |-> 1]}

AssignedTypes == {"New", "Vip", "Gold", "constructor"}

\* The user has some customer types and some profile rows.
InitProfiles ==
  /\ cashbackConfiguration = [id \in {CB1, CB2} |-> Null]
  /\ exclusiveOffer = [id \in {EX1} |-> Null]
  /\ loyaltyProgram = [m \in {M1, M2} |-> Null]
  /\ \E t1 \in {Null, Some("New")}, t2 \in {Null, Some("Vip")} :
       customerType =
         {[userId |-> U1, merchantId |-> M1, type |-> Val(t)] : t \in {t1} \ {Null}}
         \cup {[userId |-> U1, merchantId |-> M2, type |-> Val(t)] : t \in {t2} \ {Null}}
         \cup {[userId |-> U2, merchantId |-> M1, type |-> "New"]}
  /\ InitEmptyIndex /\ InitStatic({O1})
  /\ jobs = <<>> /\ nextJobId = 1 /\ enqueued = Null /\ offerIndexRebuildLog = <<>>
  /\ runs = [w \in 1..NumSlots |-> IdleRun]
  /\ nextId = 1
  /\ userMerchantProfile \in SUBSET StaleProfiles
  /\ now = 0
  /\ redis = Null
  /\ session = NoSession
  /\ lastOp = "init"

\* One caller at a time runs rebuildUserMerchantProfilesForUser for the
\* user; the user's customer types change between the runs; an await of the
\* running function may reject, and the run ends there.
NextProfiles ==
  \/ \E m \in {M1, M2}, type \in {Null} \cup {Some(t) : t \in AssignedTypes} :
       runs[1].pc = "idle" /\ SetCustomerType(U1, m, type)
  \/ Invoke(1, "profiles", U1)
  \/ RunRead(1)
  \/ RunDeleteProfiles(1)
  \/ RunCreateProfiles(1)
  \/ RunThrows(1)
  \/ Return(1)

SpecProfiles == InitProfiles /\ [][NextProfiles]_vars

RunCompleted(w, op) == runs[w].pc = "done" /\ runs[w].op = op

\* C34: after rebuildUserMerchantProfilesForUser(userId) completes, the
\* user's profile rows are exactly one row per current customer-type
\* assignment of the user, each with rank = customerTypeRank(type), whatever
\* rows existed before; a user without assignments ends with no profile row.
C34_ProfilesAreTheAssignments ==
  RunCompleted(1, "profiles") =>
    LET mine == {a \in customerType : a.userId = U1}
        rows == {p \in userMerchantProfile : p.userId = U1}
    IN /\ \A a \in mine :
            \E p \in rows :
              /\ p.merchantId = a.merchantId /\ p.customerType = a.type
              /\ JsNumber(p.rank) = customerTypeRank(Some(a.type))
       /\ \A p \in rows :
            \E a \in mine : p.merchantId = a.merchantId /\ p.customerType = a.type
       /\ Cardinality(rows) = Cardinality(mine)

\* The user is New at M1 only: the completed run leaves that one row of the
\* user, and the row of the other user.
C34_Witness ==
  /\ RunCompleted(1, "profiles")
  /\ {a \in customerType : a.userId = U1} = {[userId |-> U1, merchantId |-> M1, type |-> "New"]}
  /\ {p \in userMerchantProfile : p.userId = U1}
       = {[userId |-> U1, merchantId |-> M1, customerType |-> "New", rank |-> 1]}
  /\ \E p \in userMerchantProfile : p.userId = U2

\* The user has no assignment: the completed run leaves no row of the user.
C34_WitnessNone ==
  /\ RunCompleted(1, "profiles")
  /\ {a \in customerType : a.userId = U1} = {}
  /\ {p \in userMerchantProfile : p.userId = U1} = {}


\* ------------------------------------------------ what a resolution writes

\* A cashback configuration open to everyone at three outlets, indexed as
\* rebuildCashbackIndex leaves it; the user has a profile at its merchant.
InitFrame ==
  /\ cashbackConfiguration =
       [id \in {CB1, CB2} |->
          IF id = CB1 THEN Some([BaseCashback EXCEPT !.Outlets = ListingOutlets]) ELSE Null]
  /\ exclusiveOffer = [id \in {EX1} |-> Null]
  /\ loyaltyProgram = [m \in {M1, M2} |-> Null]
  /\ customerType = {[userId |-> U1, merchantId |-> M1, type |-> "New"]}
  /\ InitIdleQueue /\ InitStatic(ListingOutlets)
  /\ offerIndex = {OfferIndexRow(1, "CASHBACK", M1, CB1, LiveFlags, NoWindow, Some(1))}
  /\ offerIndexCustomerType = {[offerIndexId |-> 1, customerType |-> "All"]}
  /\ offerIndexOutlet = {[offerIndexId |-> 1, outletId |-> o] : o \in ListingOutlets}
  /\ loyaltyTierIndex = {}
  /\ nextId = 2
  /\ userMerchantProfile = {[userId |-> U1, merchantId |-> M1, customerType |-> "New", rank |-> 1]}
  /\ now = 0
  /\ redis \in {Null, Some({})}
  /\ session = NoSession
  /\ lastOp = "init"

NextFrame ==
  \/ Tick
  \/ \E take \in 1..2 : FirstPage(U1, take)
  \/ \E take \in 1..2 : BadCursorPage(U1, take)
  \/ NextPage
  \/ LoadOffers
  \/ Forget

SpecFrame == InitFrame /\ [][NextFrame]_vars

ResolutionSteps == {"firstPage", "cachedPage", "badCursorPage", "nextPage", "loadOffers"}

\* No cursor: null, undefined or the empty string.
HasNoCursor(input) == IsNull(input.cursor) \/ Val(input.cursor) = <<>>

\* A step of offersResolver or of the loaders leaves every table as it was;
\* if it changes the cache, the request has no cursor and the entries of all
\* other keys are as they were.
ResolutionFrame ==
  lastOp' \in ResolutionSteps =>
    /\ UNCHANGED <<srcVars, idxVars, userMerchantProfile, outlet, merchant, paybillOrTill,
                   queueVars>>
    /\ redis' # redis =>
         /\ lastOp' # "loadOffers"
         /\ HasNoCursor(Val(session'.input))
         /\ LET key == CacheKeyOf(session'.userId, normalizeTake(Val(session'.input).take),
                                  Val(session'.input))
            IN {e \in Val(redis') : e.key # key} = {e \in Val(redis) : e.key # key}

\* C35: offersResolver and the per-outlet loaders never create, update or
\* delete a row of an index table or a source table; the only state a
\* resolution request can change is the cache entry of its own key, and only
\* when the request has no cursor.
C35_ResolutionWritesOwnCacheEntryOnly == [][ResolutionFrame]_vars

\* A first page of take 2 has just been computed and stored; the entry of
\* take 1, stored a TTL or more before, is in the cache as it was.
C35_Witness ==
  /\ lastOp = "firstPage"
  /\ ~IsNull(redis)
  /\ \E e \in Val(redis) : e.key = CacheKeyOf(U1, 1, PlainInput(1, Null)) /\ e.expiresAt <= now
  /\ \E e \in Val(redis) : e.key = CacheKeyOf(U1, 2, PlainInput(2, Null)) /\ e.expiresAt = now + CACHE_TTL


\* ------------------------------------------------------ keys of the cache

MaxCached == 2            \* the cache holds at most MaxCached entries

CatSeparator == <<":", "c", "a", "t", ":">>

\* First-page requests: take 1 or 2, a search text and a category that are
\* absent or the text ":cat:", percentage bounds absent or a minimum of 0.
KeyInputs ==
  {[search |-> s, category |-> c, percentage |-> p, take |-> Some(t), cursor |-> Null] :
     s \in {Null, Some(CatSeparator)},
     c \in {Null, Some(CatSeparator)},
     p \in {Null, Some([minBps |-> Some(0), maxBps |-> Null])},
     t \in 1..2}

\* One live cashback offer open to everyone at outlets O1 and O2; the
\* description of O1 holds the text ":cat:".
InitKey ==
  /\ InitEmptySource /\ InitIdleQueue
  /\ outlet = {[OutletRow(O1, M1) EXCEPT !.description = Some(CatSeparator)], OutletRow(O2, M1)}
  /\ merchant = {MerchantRow(M1), MerchantRow(M2)}
  /\ paybillOrTill = {PaybillRow(O1), PaybillRow(O2)}
  /\ proc = ConfiguredProcess
  /\ offerIndex = {OfferIndexRow(1, "CASHBACK", M1, CB1, LiveFlags, NoWindow, Some(1))}
  /\ offerIndexCustomerType = {[offerIndexId |-> 1, customerType |-> "All"]}
  /\ offerIndexOutlet = {[offerIndexId |-> 1, outletId |-> o] : o \in {O1, O2}}
  /\ loyaltyTierIndex = {}
  /\ nextId = 2
  /\ userMerchantProfile = {}
  /\ now = 0
  /\ redis = Some({})
  /\ session = NoSession
  /\ lastOp = "init"

NextKey ==
  \/ \E u \in {U1, U2}, input \in KeyInputs :
       /\ session = NoSession
       /\ Cardinality(Val(redis)) < MaxCached
            \/ ~IsNull(RedisGet(CacheKeyOf(u, normalizeTake(input.take), input), now))
       /\ FirstPageWith(u, input)
  \/ Forget

SpecKey == InitKey /\ [][NextKey]_vars

\* The page the session's own request computes on the tables as they are.
OwnPage ==
  LET input == Val(session.input)
      take == normalizeTake(input.take)
  IN PageOf(queryRaw(session.userId, QueryOf(input), decodeCursor(input.cursor), take, now), take)

\* C36: two first-page requests that differ in userId, page size, search,
\* category, minBps or maxBps never have the same cache key, so a request is
\* never answered with a page computed for another user or filter set: on
\* tables that do not change, a page from the cache is the page of the
\* request.
C36_NeverAnotherRequestsPage ==
  lastOp = "cachedPage" => Val(session.resp) = OwnPage

\* C36 for the requests whose search and category hold no ':'.
C36_OwnPageWithoutColon ==
  (/\ lastOp = "cachedPage"
   /\ \A f \in {Val(session.input).search, Val(session.input).category} :
        IsNull(f) \/ ":" \notin Range(Val(f))) =>
    Val(session.resp) = OwnPage


\* ------------------------------------------- full rebuilds of the backstop

\* The jobs the backstop timer added that are waiting, delayed or running.
PendingBackstopJobs ==
  {i \in 1..Len(jobs) :
     /\ jobs[i].data = Job("FULL_REBUILD", CronBackstop)
     /\ jobs[i].state \in {"waiting", "delayed", "active"}}

\* C38: at every moment the queue holds at most one pending FULL_REBUILD job
\* of the backstop timer; a tick that fires while the previous one is pending
\* or being processed adds no second one.
C38_OnePendingBackstopJob == Cardinality(PendingBackstopJobs) <= 1

\* The jobs of the backstop timer carry the ids the queue numbers them with,
\* each its own.
C38_BackstopJobsNumbered ==
  \A i \in 1..Len(jobs) :
    jobs[i].data = Job("FULL_REBUILD", CronBackstop) =>
      /\ jobs[i].id # jobIdFor(jobs[i].data)
      /\ \A j \in 1..Len(jobs) : jobs[j].id = jobs[i].id => j = i


\* ------------------------------- the resolution query and the loaders

\* The offers of InitElig; the profiles change, and a source row may be deleted.
NextAgree ==
  \/ FirstPage(U1, MaxTakeInput)
  \/ LoadOffers
  \/ Forget
  \/ \E type \in {Null, Some("Vip")} :
       session = NoSession /\ SetCustomerType(U1, M1, type)
  \/ \E type \in {Null, Some("New")} :
       session = NoSession /\ SetCustomerType(U1, M2, type)
  \/ session = NoSession /\ RebuildProfiles(U1)
  \/ session = NoSession /\ DeleteCashback(CB1)
  \/ session = NoSession /\ DeleteExclusive(EX1)
  \/ session = NoSession /\ DeleteLoyalty(M2)

SpecAgree == InitElig /\ [][NextAgree]_vars

\* The outer WHERE of the resolution query for a request without search and category.
PassesStaticFilters(o) ==
  \E m \in merchant : m.id = o.merchantId /\ StaticFilters(o, m, Null, Null)

\* The three loaders called for one outlet: at least one offer comes back.
LoadersFind(userId, outletId, t) ==
  \/ cashbackByOutlet(userId, {outletId}, t)[outletId] # {}
  \/ exclusiveByOutlet(userId, {outletId}, t)[outletId] # {}
  \/ ~IsNull(loyaltyByOutlet(userId, {outletId}, t)[outletId])

\* What the loaders returned for an outlet of the page.
LoadedFor(outletId) ==
  \/ Val(session.offers).cashback[outletId] # {}
  \/ Val(session.offers).exclusive[outletId] # {}
  \/ ~IsNull(Val(session.offers).loyalty[outletId])

SameEligibility ==
  /\ lastOp = "firstPage" =>
       \A o \in outlet :
         PassesStaticFilters(o) =>
           (o.id \in ResponseIds <=> LoadersFind(session.userId, o.id, now))
  /\ lastOp = "loadOffers" => \A id \in ResponseIds : LoadedFor(id)

\* C39: at one instant and on one index state, for a request without search,
\* category or percentage filter, an outlet that passes the static filters is
\* returned by offersResolver exactly when the loaders return at least one
\* offer for it and the user; every outlet of a page has an offer loaded.
C39_SameEligibility == SameEligibility

\* The two agree as long as every index row still has the reference of its kind.
C39_SameEligibilityOfExistingSources ==
  (\A oi \in offerIndex : RefsOf(oi) = {oi.kind}) => SameEligibility

\* An outlet is returned and the loaders have offers for it.
C39_WitnessAgree ==
  /\ lastOp = "loadOffers" /\ ResponseIds # {}
  /\ \A id \in ResponseIds : LoadedFor(id)


\* ------------------------ a resolution while the profiles are rebuilt

\* An offer of merchant M1 for non-customers at outlet O1 and the loyalty
\* program of merchant M2 with a tier of rank 1 at outlet O3; the user has a
\* customer type at both merchants, and the profile rows of an earlier run.
InitGap ==
  /\ cashbackConfiguration =
       [id \in {CB1, CB2} |->
          IF id = CB1 THEN Some([BaseCashback EXCEPT !.eligibleCustomerTypes = <<"NonCustomer">>])
          ELSE Null]
  /\ exclusiveOffer = [id \in {EX1} |-> Null]
  /\ loyaltyProgram = [m \in {M1, M2} |-> IF m = M2 THEN Some(BaseLoyalty) ELSE Null]
  /\ \E t1, t2 \in {"New", "Vip"} :
       /\ customerType = {[userId |-> U1, merchantId |-> M1, type |-> t1],
                          [userId |-> U1, merchantId |-> M2, type |-> t2]}
       /\ userMerchantProfile = ProfileRowsOf(U1, customerType)
  /\ outlet = {OutletRow(O1, M1), OutletRow(O2, M1), OutletRow(O3, M2)}
  /\ merchant = {MerchantRow(M1), MerchantRow(M2)}
  /\ paybillOrTill = {PaybillRow(O1), PaybillRow(O2), PaybillRow(O3)}
  /\ proc = ConfiguredProcess
  /\ offerIndex = {OfferIndexRow(1, "CASHBACK", M1, CB1, LiveFlags, NoWindow, Some(1)),
                   OfferIndexRow(3, "LOYALTY", M2, LP2, LiveFlags, NoWindow, Null)}
  /\ offerIndexCustomerType = {[offerIndexId |-> 1, customerType |-> "NonCustomer"]}
  /\ offerIndexOutlet = {[offerIndexId |-> 1, outletId |-> O1],
                         [offerIndexId |-> 3, outletId |-> O3]}
  /\ loyaltyTierIndex = {TierRow(3, 1, 1)}
  /\ nextId = 4
  /\ jobs = <<>> /\ nextJobId = 1 /\ enqueued = Null /\ offerIndexRebuildLog = <<>>
  /\ runs = [w \in 1..NumSlots |-> IdleRun]
  /\ now = 0
  /\ redis = Null
  /\ session = NoSession
  /\ lastOp = "init"

\* rebuildUserMerchantProfilesForUser runs await by await while the user
\* resolves offers; the user's customer type changes between the runs, and
\* is never removed.
NextGap ==
  \/ \E m \in {M1, M2}, type \in {Some("New"), Some("Vip")} :
       runs[1].pc = "idle" /\ session = NoSession /\ SetCustomerType(U1, m, type)
  \/ session = NoSession /\ Invoke(1, "profiles", U1)
  \/ session = NoSession /\ RunRead(1)
  \/ session = NoSession /\ RunDeleteProfiles(1)
  \/ session = NoSession /\ RunCreateProfiles(1)
  \/ session = NoSession /\ Return(1)
  \/ FirstPage(U1, MaxTakeInput)
  \/ LoadOffers
  \/ Forget

SpecGap == InitGap /\ [][NextGap]_vars

\* The user has a customer type at the merchant.
Assigned(userId, merchantId) ==
  \E a \in customerType : a.userId = userId /\ a.merchantId = merchantId

\* The page computed now treats the user as a customer of both merchants: the
\* offer for non-customers is not shown, the loyalty tier of rank 1 is.
SeenAsCustomer ==
  /\ O1 \notin ResponseIds
  /\ O3 \in ResponseIds

\* C40: while rebuildUserMerchantProfilesForUser runs for a user who has an
\* assignment at a merchant before and after, a resolution for the user
\* finds the user's profile there: an offer listing only 'NonCustomer' is
\* not shown and the loyalty rank is not seen as 0.
C40_ProfileSeenDuringRebuild ==
  (/\ lastOp = "firstPage"
   /\ runs[1].op = "profiles" /\ InProgress(runs[1])
   /\ Assigned(U1, M1) /\ Assigned(U1, M2)) => SeenAsCustomer

\* Outside the interval between deleteMany and createMany the user is seen
\* as a customer.
C40_ProfileSeenOutsideTheGap ==
  (lastOp = "firstPage" /\ runs[1].pc # "deleted") => SeenAsCustomer

\* A resolution between findMany and deleteMany of a run.
C40_WitnessBeforeDelete ==
  /\ lastOp = "firstPage" /\ runs[1].op = "profiles" /\ runs[1].pc = "read"
  /\ SeenAsCustomer

==========================================================================
